---------------------------- MODULE Spec2Model ----------------------------
(***************************************************************************)
(* A model of the change-detection engine of go-digitaltwin (package       *)
(* neo4jengine): the graph writer, the taint set, the snapshot, Apply and  *)
(* WhatChanged, and the write/read exclusion between them.                 *)
(*                                                                         *)
(* A node is identified by its content address (NodeHash), modelled as a   *)
(* number; the byte order of hashes is the order of the numbers.  SHA-1 is *)
(* modelled as collision free: a hash is the sequence of values written to *)
(* the digest, so that two hashes are equal exactly when their inputs are. *)
(***************************************************************************)
EXTENDS Integers, Sequences, FiniteSets, TLC

(***************************************************************************)
(* Bounds of the model.                                                    *)
(***************************************************************************)
NumNodes == 3
MaxWrites == 2
NumAppliers == 2
NumCheckers == 2
ConcNodes == 1
MaxApplies == 2
MaxCalls == 2
MaxAssertions == 3
RecNodes == 2
MaxSteps == 2
NumComponents == 2
MaxMessages == 2
NumGoroutines == 2
MaxMapCalls == 3
NumRegistrars == 3
MaxRegisterCalls == 4
MaxRoots == 2
MaxRefs == 3
MaxBuilderCalls == 4
MaxWriterCalls == 3
MaxTaintCalls == 4
MaxTaintArgs == 2
LockNodes == 2

\* The depth bound of the assembly-fetch queries, [*0..5].
TraversalDepth == 5

Values == 1..NumNodes

\* The label (registered Go type) of a value: two values of each type.
LabelOf(n) == (n + 1) \div 2

Labels == {LabelOf(n) : n \in Values}

EmptyGraph == [nodes |-> {}, edges |-> {}]

(***************************************************************************)
(* The backend graph and the Cypher statements of the graph writer.  Each  *)
(* writer operation yields the graph after the statement, the nodes it     *)
(* taints and the count it returns.                                        *)
(***************************************************************************)
Neighbours(g, n) == {m \in g.nodes : <<n, m>> \in g.edges \/ <<m, n>> \in g.edges}

assertNode(g, n) ==
    [g |-> [nodes |-> g.nodes \cup {n}, edges |-> g.edges],
     taints |-> {n},
     n |-> 1]

\* A retractNode that taints the retracted node alone.
retractNodeAlone(g, n) ==
    [g |-> [nodes |-> g.nodes \ {n},
            edges |-> {e \in g.edges : e[1] # n /\ e[2] # n}],
     taints |-> {n},
     n |-> IF n \in g.nodes THEN 1 ELSE 0]

retractNode(g, n) ==
    [g |-> [nodes |-> g.nodes \ {n},
            edges |-> {e \in g.edges : e[1] # n /\ e[2] # n}],
     taints |-> {n} \cup Neighbours(g, n),
     n |-> IF n \in g.nodes THEN 1 ELSE 0]

assertEdge(g, from, to) ==
    [g |-> [nodes |-> g.nodes \cup {from, to},
            edges |-> g.edges \cup {<<from, to>>}],
     taints |-> {from, to},
     n |-> 1]

RetractedEdges(g, n, label) ==
    {e \in g.edges : \/ e[1] = n /\ LabelOf(e[2]) = label
                     \/ e[2] = n /\ LabelOf(e[1]) = label}

retractEdges(g, n, label) ==
    [g |-> [nodes |-> g.nodes, edges |-> g.edges \ RetractedEdges(g, n, label)],
     taints |-> {n} \cup {m \in Neighbours(g, n) : LabelOf(m) = label},
     n |-> Cardinality(RetractedEdges(g, n, label))]

(***************************************************************************)
(* The taint set (nodeMap).                                                *)
(***************************************************************************)
Taint(m, nodes) == m \cup nodes

\* A ClearTaints that leaves the map as it is.
ClearTaintsKeeps(m) == [nodes |-> m, m |-> m]

ClearTaints(m) == [nodes |-> m, m |-> {}]

(***************************************************************************)
(* The relationship assertions of package assert over a GraphWriter.  Each *)
(* yields the graph it leaves, how it ends and the number of calls it made *)
(* to the writer.  It ends with "nil", with "error" when the failAt-th     *)
(* call of the writer returns an error (0: none does), or with "panic"     *)
(* when a RetractEdges call reports more than one removed edge.            *)
(***************************************************************************)
OneToOne(g, source, target, failAt) ==
    LET edgesFrom == retractEdges(g, source, LabelOf(target))
        edgesTo == retractEdges(edgesFrom.g, target, LabelOf(source))
    IN  IF failAt = 1 THEN [g |-> g, ret |-> "error", calls |-> 1]
        ELSE IF edgesFrom.n > 1 THEN [g |-> edgesFrom.g, ret |-> "panic", calls |-> 1]
        ELSE IF failAt = 2 THEN [g |-> edgesFrom.g, ret |-> "error", calls |-> 2]
        ELSE IF edgesTo.n > 1 THEN [g |-> edgesTo.g, ret |-> "panic", calls |-> 2]
        ELSE IF failAt = 3 THEN [g |-> edgesTo.g, ret |-> "error", calls |-> 3]
        ELSE [g |-> assertEdge(edgesTo.g, source, target).g, ret |-> "nil", calls |-> 3]

\* OneToMany without the retraction of the edges to the target.
OneToManyKeepsEdges(g, source, target, failAt) ==
    IF failAt \in {1, 2} THEN [g |-> g, ret |-> "error", calls |-> failAt]
    ELSE [g |-> assertEdge(g, source, target).g, ret |-> "nil", calls |-> 2]

OneToMany(g, source, target, failAt) ==
    LET edgesTo == retractEdges(g, target, LabelOf(source))
    IN  IF failAt = 1 THEN [g |-> g, ret |-> "error", calls |-> 1]
        ELSE IF edgesTo.n > 1 THEN [g |-> edgesTo.g, ret |-> "panic", calls |-> 1]
        ELSE IF failAt = 2 THEN [g |-> edgesTo.g, ret |-> "error", calls |-> 2]
        ELSE [g |-> assertEdge(edgesTo.g, source, target).g, ret |-> "nil", calls |-> 2]

ManyToOne(g, source, target, failAt) ==
    LET edgesFrom == retractEdges(g, source, LabelOf(target))
    IN  IF failAt = 1 THEN [g |-> g, ret |-> "error", calls |-> 1]
        ELSE IF edgesFrom.n > 1 THEN [g |-> edgesFrom.g, ret |-> "panic", calls |-> 1]
        ELSE IF failAt = 2 THEN [g |-> edgesFrom.g, ret |-> "error", calls |-> 2]
        ELSE [g |-> assertEdge(edgesFrom.g, source, target).g, ret |-> "nil", calls |-> 2]

ManyToMany(g, source, target, failAt) ==
    IF failAt = 1 THEN [g |-> g, ret |-> "error", calls |-> 1]
    ELSE [g |-> assertEdge(g, source, target).g, ret |-> "nil", calls |-> 1]

(***************************************************************************)
(* Package compilation.  A Step is a record of its type and its operands;  *)
(* doing a step yields the graph it leaves, how it ends and the calls it   *)
(* made to the GraphWriter.                                                *)
(***************************************************************************)
RecValues == 1..RecNodes

\* Step.Do for the steps that make one call to the writer.
DoCall(g, after, failAt, call) ==
    IF failAt = 1 THEN [g |-> g, ret |-> "error", calls |-> <<call>>]
    ELSE [g |-> after, ret |-> "nil", calls |-> <<call>>]

\* Step.Do for the steps that assert a relationship: r is the assertion of
\* package assert, plan the calls it makes to the writer when none fails.
DoRelationship(r, plan) ==
    [g |-> r.g, ret |-> r.ret, calls |-> SubSeq(plan, 1, r.calls)]

Do(step, g, failAt) ==
    IF step.type = "assertNode"
    THEN DoCall(g, assertNode(g, step.Node).g, failAt, <<"AssertNode", step.Node>>)
    ELSE IF step.type = "retractNode"
    THEN DoCall(g, retractNode(g, step.Node).g, failAt, <<"RetractNode", step.Node>>)
    ELSE IF step.type = "assertEdge"
    THEN DoCall(g, assertEdge(g, step.From, step.To).g, failAt,
                <<"AssertEdge", step.From, step.To>>)
    ELSE IF step.type = "retractEdges"
    THEN DoCall(g, retractEdges(g, step.Node, step.Kind).g, failAt,
                <<"RetractEdges", step.Node, step.Kind>>)
    ELSE LET s == step.Source
             t == step.Target
             from == <<"RetractEdges", s, LabelOf(t)>>
             to == <<"RetractEdges", t, LabelOf(s)>>
             edge == <<"AssertEdge", s, t>>
         IN  IF step.type = "assertOneToOne"
             THEN DoRelationship(OneToOne(g, s, t, failAt), <<from, to, edge>>)
             ELSE IF step.type = "assertOneToMany"
             THEN DoRelationship(OneToMany(g, s, t, failAt), <<to, edge>>)
             ELSE IF step.type = "assertManyToOne"
             THEN DoRelationship(ManyToOne(g, s, t, failAt), <<from, edge>>)
             ELSE DoRelationship(ManyToMany(g, s, t, failAt), <<edge>>)

\* The entries a step adds to the log of the writer's calls.
Logged(i, calls) == [k \in 1..Len(calls) |-> [step |-> i, call |-> calls[k]]]

\* Replay that goes on with the next step after a step has failed.
RECURSIVE ReplayIgnoringErrors(_, _, _, _, _)
ReplayIgnoringErrors(steps, i, g, log, failAt) ==
    IF i > Len(steps) THEN [g |-> g, ret |-> "nil", log |-> log]
    ELSE LET r == Do(steps[i], g, IF failAt > Len(log) THEN failAt - Len(log) ELSE 0)
         IN  ReplayIgnoringErrors(steps, i + 1, r.g, log \o Logged(i, r.calls), failAt)

\* The loop of the compilation Replay returns, from step i on: the writer
\* has graph g and has logged its calls, and fails its failAt-th call.
RECURSIVE ReplayFrom(_, _, _, _, _)
ReplayFrom(steps, i, g, log, failAt) ==
    IF i > Len(steps) THEN [g |-> g, ret |-> "nil", log |-> log]
    ELSE LET r == Do(steps[i], g, IF failAt > Len(log) THEN failAt - Len(log) ELSE 0)
         IN  IF r.ret # "nil"
             THEN [g |-> r.g, ret |-> r.ret, log |-> log \o Logged(i, r.calls)]
             ELSE ReplayFrom(steps, i + 1, r.g, log \o Logged(i, r.calls), failAt)

Replay(steps, g, failAt) == ReplayFrom(steps, 1, g, << >>, failAt)

(***************************************************************************)
(* The gob encoding of steps.  An interface value is sent as the name of   *)
(* its concrete type followed by its value; a step is an interface value   *)
(* whose value is its fields, but for retractEdges, which encodes itself.  *)
(***************************************************************************)
EncodeValue(v) == [name |-> LabelOf(v), value |-> v]

DecodeValue(d) == d.value

\* reflect.Zero(kind).Interface(), as gob sends it.
Sentinel(kind) == [name |-> kind, value |-> 0]

GobEncode(s) == <<EncodeValue(s.Node), Sentinel(s.Kind)>>

\* A GobDecode that takes the kind from the node instead of the sentinel.
GobDecodeKindOfNode(data) ==
    [type |-> "retractEdges", Node |-> DecodeValue(data[1]), Kind |-> data[1].name]

GobDecode(data) ==
    [type |-> "retractEdges", Node |-> DecodeValue(data[1]), Kind |-> data[2].name]

EncodeStep(s) ==
    IF s.type = "retractEdges" THEN [name |-> s.type, value |-> GobEncode(s)]
    ELSE IF s.type \in {"assertNode", "retractNode"}
    THEN [name |-> s.type, value |-> <<EncodeValue(s.Node)>>]
    ELSE IF s.type = "assertEdge"
    THEN [name |-> s.type, value |-> <<EncodeValue(s.From), EncodeValue(s.To)>>]
    ELSE [name |-> s.type, value |-> <<EncodeValue(s.Source), EncodeValue(s.Target)>>]

DecodeStep(d) ==
    IF d.name = "retractEdges" THEN GobDecode(d.value)
    ELSE IF d.name \in {"assertNode", "retractNode"}
    THEN [type |-> d.name, Node |-> DecodeValue(d.value[1])]
    ELSE IF d.name = "assertEdge"
    THEN [type |-> d.name, From |-> DecodeValue(d.value[1]), To |-> DecodeValue(d.value[2])]
    ELSE [type |-> d.name, Source |-> DecodeValue(d.value[1]),
                           Target |-> DecodeValue(d.value[2])]

Encode(s) == [i \in 1..Len(s) |-> EncodeStep(s[i])]

Decode(data) == [i \in 1..Len(data) |-> DecodeStep(data[i])]

(***************************************************************************)
(* Targets: the operands of the steps, each content address once.          *)
(***************************************************************************)
\* The content address of a value: its type and its exported fields.
MustContentAddress(v) == <<LabelOf(v), v>>

\* Step.Targets.
StepTargets(s) ==
    IF s.type \in {"assertNode", "retractNode", "retractEdges"} THEN <<s.Node>>
    ELSE IF s.type = "assertEdge" THEN <<s.From, s.To>>
    ELSE <<s.Source, s.Target>>

\* The operands of all the steps, in the order the loops of Targets meet them.
RECURSIVE Operands(_)
Operands(steps) ==
    IF steps = << >> THEN << >>
    ELSE StepTargets(Head(steps)) \o Operands(Tail(steps))

\* An iteration that yields every operand it meets, seen or not.
RECURSIVE YieldAll(_, _, _, _)
YieldAll(operands, seen, yielded, stopAt) ==
    IF operands = << >> THEN yielded
    ELSE IF Len(yielded) + 1 = stopAt THEN Append(yielded, Head(operands))
    ELSE YieldAll(Tail(operands), seen, Append(yielded, Head(operands)), stopAt)

\* The iteration of Targets over the operands left: seen holds the content
\* addresses yielded so far, and the consumer's yield returns false at the
\* stopAt-th value (0: never).
RECURSIVE YieldFrom(_, _, _, _)
YieldFrom(operands, seen, yielded, stopAt) ==
    IF operands = << >> THEN yielded
    ELSE LET target == Head(operands)
             ca == MustContentAddress(target)
         IN  IF ca \in seen THEN YieldFrom(Tail(operands), seen, yielded, stopAt)
             ELSE IF Len(yielded) + 1 = stopAt THEN Append(yielded, target)
             ELSE YieldFrom(Tail(operands), seen \cup {ca}, Append(yielded, target), stopAt)

Targets(steps, stopAt) == YieldFrom(Operands(steps), {}, << >>, stopAt)

(***************************************************************************)
(* Sorting, as sort.Slice with bytes.Compare does it.                      *)
(***************************************************************************)
RECURSIVE SortedSeq(_)
SortedSeq(S) ==
    IF S = {} THEN <<>>
    ELSE LET m == CHOOSE x \in S : \A y \in S : x <= y
         IN  <<m>> \o SortedSeq(S \ {m})

RECURSIVE LexLess(_, _)
LexLess(a, b) ==
    IF a = <<>> THEN b # <<>>
    ELSE IF b = <<>> THEN FALSE
    ELSE IF Head(a) # Head(b) THEN Head(a) < Head(b)
    ELSE LexLess(Tail(a), Tail(b))

RECURSIVE SortedIds(_)
SortedIds(S) ==
    IF S = {} THEN <<>>
    ELSE LET m == CHOOSE x \in S : \A y \in S \ {x} : LexLess(x, y)
         IN  <<m>> \o SortedIds(S \ {m})

(***************************************************************************)
(* Assemblies and their content addresses.                                 *)
(***************************************************************************)
\* An AssemblyGraph: Root is the list of roots, Vertices the node hashes,
\* Neighbours the edges.
AssemblyGraph(roots, vertices, edges) ==
    [Root |-> roots, Vertices |-> vertices, Neighbours |-> edges]

\* sort.Slice on a slice of hashes: the same elements, each as often as it
\* is in the slice, in ascending order.
RECURSIVE SortSlice(_)
SortSlice(s) ==
    IF s = <<>> THEN <<>>
    ELSE LET i == CHOOSE k \in DOMAIN s : \A j \in DOMAIN s : s[k] <= s[j]
         IN  <<s[i]>> \o SortSlice(SubSeq(s, 1, i - 1) \o SubSeq(s, i + 1, Len(s)))

\* The roots as they are given: what is hashed when the sort is left out.
AssemblyIDUnsorted(a) == a.Root

\* ComponentID: the digest of the roots in sorted order.  The digest of a
\* collision-free hash function is modelled by the bytes written to it.
AssemblyID(a) == SortSlice(a.Root)

\* The sorted neighbours of a node.
NeighboursOf(a, from) == SortedSeq({e[2] : e \in {x \in a.Neighbours : x[1] = from}})

\* The hashes written for the nodes: each node, then its neighbours, one
\* after the other with nothing in between.
RECURSIVE WriteNodes(_, _)
WriteNodes(a, nodes) ==
    IF nodes = <<>> THEN <<>>
    ELSE <<Head(nodes)>> \o NeighboursOf(a, Head(nodes)) \o WriteNodes(a, Tail(nodes))

\* What is hashed when the neighbours are left out.
AssemblyHashOfNodes(a) == <<AssemblyID(a)>> \o SortedSeq(a.Vertices)

\* ComponentHash: the digest of the ID, then of every node in sorted order
\* followed by its sorted neighbours.
AssemblyHash(a) == <<AssemblyID(a)>> \o WriteNodes(a, SortedSeq(a.Vertices))

\* ForestHash: the digest of the component hashes in the order of their IDs.
HashComponents(components) ==
    [i \in 1..Cardinality(DOMAIN components) |->
        components[SortedIds(DOMAIN components)[i]]]

GraphHash(s) == HashComponents(s)

ContainsAssembly(s, a) ==
    AssemblyID(a) \in DOMAIN s /\ s[AssemblyID(a)] = AssemblyHash(a)

EmptySnapshot == [id \in {} |-> <<>>]

(***************************************************************************)
(* The assembly-fetch queries.                                             *)
(***************************************************************************)
\* MATCH (root) WHERE NOT ()-->(root)
RootsOf(g) == {r \in g.nodes : ~ \E e \in g.edges : e[2] = r}

Isolated(g, n) == n \in g.nodes /\ ~ \E e \in g.edges : e[1] = n \/ e[2] = n

Successors(g, S) == {e[2] : e \in {x \in g.edges : x[1] \in S}}

\* The nodes at the end of a path of 0..k edges that starts in S.
RECURSIVE ReachWithin(_, _, _)
ReachWithin(g, S, k) ==
    IF k = 0 \/ Successors(g, S) \subseteq S THEN S
    ELSE ReachWithin(g, S \cup Successors(g, S), k - 1)

\* (root)-[*]->(target): a path of one edge or more, of any length.
Reaches(g, root, target) ==
    target \in ReachWithin(g, Successors(g, {root}), Cardinality(g.nodes))

\* (root)-[*0..5]->(path_node)-[]->(adjacent_path_node)
Tuples(g, root) == {e \in g.edges : e[1] \in ReachWithin(g, {root}, TraversalDepth)}

parseAssembly(root, tuples) ==
    AssemblyGraph(<<root>>,
                  {root} \cup {e[1] : e \in tuples} \cup {e[2] : e \in tuples},
                  tuples)

\* The full scan: every root with its tuples, and every isolated root.
fetchAssemblies(g) ==
    {parseAssembly(r, Tuples(g, r)) :
        r \in {x \in RootsOf(g) : Tuples(g, x) # {} \/ Isolated(g, x)}}

captureSnapshot(g) ==
    [id \in {AssemblyID(a) : a \in fetchAssemblies(g)} |->
        AssemblyHash(CHOOSE a \in fetchAssemblies(g) : AssemblyID(a) = id)]

\* The roots the query of one tainted node returns.
TaintRoots(g, taint) ==
    {r \in RootsOf(g) : taint \in g.nodes /\ Reaches(g, r, taint)}
    \cup {r \in {taint} : Isolated(g, r)}

fetchPartialAssemblies(g, taints) ==
    {parseAssembly(r, Tuples(g, r)) : r \in UNION {TaintRoots(g, t) : t \in taints}}

\* The ComponentID of an assembly made of the tainted node alone.
componentID(taint) == AssemblyID(AssemblyGraph(<<taint>>, {taint}, {}))

(***************************************************************************)
(* Snapshots: PartialDiff and Update.                                      *)
(***************************************************************************)
\* The full Diff in place of the partial one: every ID of s that partial
\* lacks counts as removed.
FullDiff(s, partial, dirtyRoots) ==
    [created |-> {id \in DOMAIN partial : id \notin DOMAIN s},
     updated |-> {id \in DOMAIN partial : id \in DOMAIN s /\ s[id] # partial[id]},
     removed |-> {id \in DOMAIN s : id \notin DOMAIN partial}]

\* A PartialDiff that reports every component of both snapshots as updated.
DiffWithoutHashes(s, partial, dirtyRoots) ==
    [created |-> {id \in DOMAIN partial : id \notin DOMAIN s},
     updated |-> {id \in DOMAIN partial : id \in DOMAIN s},
     removed |-> {id \in dirtyRoots : id \in DOMAIN s /\ id \notin DOMAIN partial}]

PartialDiff(s, partial, dirtyRoots) ==
    [created |-> {id \in DOMAIN partial : id \notin DOMAIN s},
     updated |-> {id \in DOMAIN partial : id \in DOMAIN s /\ s[id] # partial[id]},
     removed |-> {id \in dirtyRoots : id \in DOMAIN s /\ id \notin DOMAIN partial}]

\* The snapshot with the id -> hash pair of every reference of refs set.
\* An Update that records no reference.
SetNothing(s, refs) == s

SetRefs(s, refs) ==
    [id \in DOMAIN s \cup {r.id : r \in refs} |->
        IF id \in {r.id : r \in refs}
        THEN (CHOOSE r \in refs : r.id = id).hash
        ELSE s[id]]

DeleteRefs(s, refs) == [id \in DOMAIN s \ {r.id : r \in refs} |-> s[id]]

\* An Update that keeps the removed components.
UpdateKeepsRemoved(s, changes) ==
    SetRefs(SetRefs(s, changes.Created), changes.Updated)

Update(s, changes) ==
    DeleteRefs(SetRefs(SetRefs(s, changes.Created), changes.Updated), changes.Removed)

(***************************************************************************)
(* WhatChanged.  The backend may fail the read (fault "fetch") and a       *)
(* drained taint may fail to yield a ComponentID (fault "component").  The *)
(* result is the returned error and GraphChanged, and the snapshot and     *)
(* taint set the call leaves behind.                                       *)
(***************************************************************************)
\* The zero value of a ForestHash, as in GraphChanged{}.
ZeroHash == << <<>> >>

NoChanges ==
    [GraphBefore |-> ZeroHash, Created |-> {}, Updated |-> {}, Removed |-> {},
     GraphAfter |-> ZeroHash]

Faults == {"none", "fetch", "component"}

\* The partial snapshot built while iterating the fetched assemblies.
NextSnapshot(assemblies) ==
    [id \in {AssemblyID(a) : a \in assemblies} |->
        AssemblyHash(CHOOSE a \in assemblies : AssemblyID(a) = id)]

\* Changes whose Updated entries carry the new hash as their Baseline.
BaselineIsNewHash(s, assemblies, taints) ==
    LET next == NextSnapshot(assemblies)
        diff == PartialDiff(s, next, {componentID(t) : t \in taints})
    IN  [GraphBefore |-> GraphHash(s),
         Created |-> {[id |-> id, hash |-> next[id]] : id \in diff.created},
         Updated |-> {[id |-> id, hash |-> next[id], Baseline |-> next[id]] :
                        id \in diff.updated},
         Removed |-> {[id |-> id, hash |-> s[id]] : id \in diff.removed},
         GraphAfter |-> ZeroHash]

PopulateChanges(s, assemblies, taints) ==
    LET next == NextSnapshot(assemblies)
        diff == PartialDiff(s, next, {componentID(t) : t \in taints})
    IN  [GraphBefore |-> GraphHash(s),
         Created |-> {[id |-> id, hash |-> next[id]] : id \in diff.created},
         Updated |-> {[id |-> id, hash |-> next[id], Baseline |-> s[id]] :
                        id \in diff.updated},
         Removed |-> {[id |-> id, hash |-> s[id]] : id \in diff.removed},
         GraphAfter |-> ZeroHash]

\* The number of fetched assemblies that lack a root.
rootlessAssemblies(assemblies) == Cardinality({a \in assemblies : Len(a.Root) = 0})

\* GraphAfter taken from the snapshot before its update.
GraphAfterBeforeUpdate(before, after) == GraphHash(before)

\* GraphAfter is derived from the snapshot after its update.
ComputeGraphAfter(before, after) == GraphHash(after)

\* WhatChanged updating the snapshot before it looks at the errors.
UpdateBeforeErrors(s, g, taintMap, fault) ==
    LET drained == ClearTaints(taintMap)
        assemblies == fetchPartialAssemblies(g, drained.nodes)
        changes == PopulateChanges(s, assemblies, drained.nodes)
        updated == Update(s, changes)
    IN  IF fault = "fetch"
        THEN [err |-> "fetch", changes |-> NoChanges, snapshot |-> s, taints |-> drained.m]
        ELSE IF fault = "component"
        THEN [err |-> "component", changes |-> NoChanges, snapshot |-> updated,
              taints |-> drained.m]
        ELSE [err |-> "none",
              changes |-> [changes EXCEPT !.GraphAfter = ComputeGraphAfter(s, updated)],
              snapshot |-> updated,
              taints |-> drained.m]

WhatChangedResult(s, g, taintMap, fault) ==
    LET drained == ClearTaints(taintMap)
        assemblies == fetchPartialAssemblies(g, drained.nodes)
        rootless == rootlessAssemblies(assemblies)
        changes == PopulateChanges(s, assemblies, drained.nodes)
        updated == Update(s, changes)
    IN  IF fault = "fetch"
        THEN [err |-> "fetch", changes |-> NoChanges, snapshot |-> s, taints |-> drained.m]
        ELSE IF fault = "component"
        THEN [err |-> "component", changes |-> NoChanges, snapshot |-> s, taints |-> drained.m]
        ELSE IF rootless > 0
        THEN [err |-> "rootless", changes |-> changes, snapshot |-> s, taints |-> drained.m]
        ELSE [err |-> "none",
              changes |-> [changes EXCEPT !.GraphAfter = ComputeGraphAfter(s, updated)],
              snapshot |-> updated,
              taints |-> drained.m]

(***************************************************************************)
(* The engine driven by one caller: Apply runs a compilation of writer     *)
(* operations in a transaction, WhatChanged runs between transactions.  A  *)
(* run performs at most MaxWrites writer operations.                       *)
(***************************************************************************)
VARIABLES
    graph,          \* the committed backend graph
    snapshot,       \* Engine.snapshot
    taintedNodes,   \* Engine.taintedNodes
    tx,             \* the open transaction of Apply: its view of the graph
    writes,         \* the writer operations performed so far
    applyRet,       \* what the last Apply returned, until the next call
    last,           \* what the last WhatChanged returned, until the next Apply
    chain,          \* GraphAfter of the last successful WhatChanged
    quiet,          \* no Apply has run since the last successful WhatChanged
    dropped,        \* a failed WhatChanged has drained taints
    notified,       \* the hash last notified of each component not removed since
    writers,        \* txMutex: the goroutines that hold it in write mode
    locker,         \* txMutex: the goroutine whose Lock is announced or held
    apc,            \* where each concurrent Apply stands
    aop,            \* the writer operation each concurrent Apply has performed
    cpc,            \* where each concurrent WhatChanged stands
    cloc,           \* the locals and the result of each concurrent WhatChanged
    applies,        \* the concurrent Apply calls made so far
    calls,          \* the concurrent WhatChanged calls made so far
    fatal,          \* the runtime stopped the program on a concurrent map access
    agraph,         \* the graph the relationship assertions write to
    akinds,         \* the relationship kind each pair of node types is asserted with
    alast,          \* the last relationship assertion and how it ended
    acount,         \* the relationship assertions called so far
    rsteps,         \* Recorder.steps
    rcalls,         \* the calls made to the Recorder since it was empty
    outcome,        \* what the last Replay or Targets iteration did
    dpc,            \* where the disassembler stands
    dmsg,           \* the GraphChanged message the disassembler has received
    dsent,          \* the ComponentChanged messages sent for it
    dfailed,        \* the ComponentChanged messages whose sending failed
    dreceived,      \* the messages the disassembler has received so far
    dacks,          \* the messages the disassembler has acknowledged so far
    tpc,            \* where TrackAttribute stands
    amap,           \* AttributeMap.m
    trackedGraph,   \* the local trackedGraph of TrackAttribute
    tmsg,           \* the message TrackAttribute received last
    treceived,      \* the messages TrackAttribute has received so far
    tlatest,        \* the latest notification handled for each component
    tlastAfter,     \* GraphAfter of the message handled last
    tcontinuous,    \* every message handled so far continued the one before
    cmap,           \* the map of an AttributeMap shared by goroutines
    mu,             \* AttributeMap.mu: the goroutine that holds it, if any
    gpc,            \* the call each goroutine makes on the AttributeMap and where it stands
    mcalls,         \* the calls made on the shared AttributeMap so far
    mfatal,         \* the runtime stopped the program on a concurrent map access
    mLabelToType,   \* nodeRegistry.mLabelToType: the type stored for each registered label
    mTypeToLabel,   \* nodeRegistry.mTypeToLabel: the label stored for each registered type
    regpc,          \* the RegisterLabel call of each goroutine and the statement it has reached
    regcalls,       \* the RegisterLabel calls made so far
    hleft,          \* an assembly whose ID and hash are computed
    hright,         \* the assembly it is compared with: hleft after some edits
    frefs,          \* the components given to ComputeForestHash
    fhash,          \* the ForestHash computed for them, if any
    fagain,         \* the ForestHash computed for them once more, given in another order
    fsame,          \* the second computation was given them in the same order
    barrays,        \* the arrays allocated for slices of roots, by address
    bmaps,          \* the maps of nodes allocated, by address
    broots,         \* AssemblyBuilder.roots: a slice, its array and its length
    bnodes,         \* AssemblyBuilder.nodes: the address of a map, or nil
    bneighbours,    \* AssemblyBuilder.neighbours: the edges
    bgiven,         \* the roots given by the last Roots call on the builder
    bassembled,     \* the assemblies Assemble returned, each with what it was on return
    bcalls,         \* the calls made on the builder so far
    wpc,            \* where Walk stands: not called, walking, returned
    wtree,          \* the assembly that is walked
    wnext,          \* the index of the next root Walk calls WalkSubtree for
    wstack,         \* the WalkSubtree calls in progress, the outermost first
    wlog,           \* the Visit calls made so far
    wvisitors,      \* the visitors there are so far
    dsnapshot,      \* the snapshot PartialDiff is called on
    dpartial,       \* the partial snapshot it is given
    ddirtyRoots,    \* the dirty roots it is given
    ddiff,          \* what it returned, if it has been called
    gwgraph,        \* the graph the transaction of a graphWriter sees
    gwtaints,       \* the nodes its nodeTainter holds
    gwlast,         \* the operation called last on the writer, and how it ended
    gwcalls,        \* the operations called on the writer so far
    nmap,           \* nodeMap.m of a nodeMap shared by goroutines
    nmu,            \* nodeMap.mu: the goroutine that holds it, if any
    npc,            \* the call each goroutine makes on the nodeMap and where it stands
    nowed,          \* the nodes given to the Taint calls that returned since the last ClearTaints took the nodes
    nlast,          \* what the last ClearTaints returned, and what had been tainted
    ncalls,         \* the calls made on the shared nodeMap so far
    kwriters,       \* txMutex: the Apply calls that hold it in write mode
    klocker,        \* txMutex: the WhatChanged whose Lock is announced or held
    kapc,           \* where each Apply stands, call after call
    kcpc,           \* where each WhatChanged stands, call after call
    ktaints,        \* Engine.taintedNodes
    kinflight,      \* the nodes tainted since no Apply was in progress
    kowed,          \* the nodes tainted, since the last drain, before the last Apply returned
    klast,          \* the last drain: what it returned and what the Apply calls had tainted
    qgraph,         \* the committed graph a WhatChanged reads while Apply calls go on
    qtaints,        \* Engine.taintedNodes then
    qwriters,       \* txMutex: the Apply calls that hold it in write mode
    qlocker,        \* txMutex: the Lock of the WhatChanged is announced or held
    qapplies,       \* the Apply calls made so far beside the WhatChanged
    qpc,            \* where the WhatChanged stands
    qdrained,       \* the slice ClearTaints returned to the WhatChanged
    qleft,          \* the drained taints fetchPartialAssemblies has not queried yet
    qseen,          \* the local seen of fetchPartialAssemblies
    qfetched,       \* the assemblies fetchPartialAssemblies has appended so far
    ssub,           \* the subscription: where each message stands
    skind,          \* what each published message is
    sacks,          \* the calls of Ack on each message
    shandled,       \* the calls of the EventHandler with each message
    sapplied,       \* the messages whose Compilation was applied
    spc,            \* where the procedure of Stream stands
    scur,           \* the message it holds
    scause,         \* what its fatal error wraps
    pgraph,         \* the committed graph of an engine whose assemblies grow deep
    ptaints,        \* its Engine.taintedNodes
    psnapshot,      \* its Engine.snapshot
    pbase,          \* the graph at its last WhatChanged without error
    plast           \* what its last WhatChanged returned

seqVars == <<tx, writes, applyRet, last, quiet, dropped, notified>>

concVars == <<writers, locker, apc, aop, cpc, cloc, applies, calls, fatal>>

assertVars == <<agraph, akinds, alast, acount>>

recVars == <<rsteps, rcalls, outcome>>

disVars == <<dpc, dmsg, dsent, dfailed, dreceived, dacks>>

trackVars == <<tpc, amap, trackedGraph, tmsg, treceived, tlatest, tlastAfter, tcontinuous>>

mapVars == <<cmap, mu, gpc, mcalls, mfatal>>

regVars == <<mLabelToType, mTypeToLabel, regpc, regcalls>>

hashVars == <<hleft, hright>>

forestVars == <<frefs, fhash, fagain, fsame>>

builderVars == <<barrays, bmaps, broots, bnodes, bneighbours, bgiven, bassembled, bcalls>>

walkVars == <<wpc, wtree, wnext, wstack, wlog, wvisitors>>

diffVars == <<dsnapshot, dpartial, ddirtyRoots, ddiff>>

writerVars == <<gwgraph, gwtaints, gwlast, gwcalls>>

nodeMapVars == <<nmap, nmu, npc, nowed, nlast, ncalls>>

lockVars == <<kwriters, klocker, kapc, kcpc, ktaints, kinflight, kowed, klast>>

fetchVars == <<qgraph, qtaints, qwriters, qlocker, qapplies, qpc, qdrained, qleft, qseen, qfetched>>

streamVars == <<ssub, skind, sacks, shandled, sapplied, spc, scur, scause>>

deepVars == <<pgraph, ptaints, psnapshot, pbase, plast>>

moreVars == <<disVars, trackVars, mapVars, regVars, hashVars, forestVars, builderVars, walkVars, diffVars, writerVars, nodeMapVars, lockVars, fetchVars, streamVars, deepVars>>

libVars == <<assertVars, recVars, moreVars>>

vars == <<graph, snapshot, taintedNodes, chain, seqVars, concVars, libVars>>

\* What the actions of each of the models below leave unchanged.
disFrame ==
    <<graph, snapshot, taintedNodes, chain, seqVars, concVars,
      assertVars, recVars, trackVars, mapVars, regVars, hashVars, forestVars, builderVars, walkVars, diffVars, writerVars, nodeMapVars, lockVars, fetchVars, streamVars, deepVars>>

trackFrame ==
    <<graph, snapshot, taintedNodes, chain, seqVars, concVars,
      assertVars, recVars, disVars, mapVars, regVars, hashVars, forestVars, builderVars, walkVars, diffVars, writerVars, nodeMapVars, lockVars, fetchVars, streamVars, deepVars>>

mapFrame ==
    <<graph, snapshot, taintedNodes, chain, seqVars, concVars,
      assertVars, recVars, disVars, trackVars, regVars, hashVars, forestVars, builderVars, walkVars, diffVars, writerVars, nodeMapVars, lockVars, fetchVars, streamVars, deepVars>>

regFrame ==
    <<graph, snapshot, taintedNodes, chain, seqVars, concVars,
      assertVars, recVars, disVars, trackVars, mapVars, hashVars, forestVars, builderVars, walkVars, diffVars, writerVars, nodeMapVars, lockVars, fetchVars, streamVars, deepVars>>

hashFrame ==
    <<graph, snapshot, taintedNodes, chain, seqVars, concVars,
      assertVars, recVars, disVars, trackVars, mapVars, regVars, forestVars, builderVars, walkVars, diffVars, writerVars, nodeMapVars, lockVars, fetchVars, streamVars, deepVars>>

forestFrame ==
    <<graph, snapshot, taintedNodes, chain, seqVars, concVars,
      assertVars, recVars, disVars, trackVars, mapVars, regVars, hashVars, builderVars, walkVars, diffVars, writerVars, nodeMapVars, lockVars, fetchVars, streamVars, deepVars>>

builderFrame ==
    <<graph, snapshot, taintedNodes, chain, seqVars, concVars,
      assertVars, recVars, disVars, trackVars, mapVars, regVars, hashVars, forestVars, walkVars, diffVars, writerVars, nodeMapVars, lockVars, fetchVars, streamVars, deepVars>>

walkFrame ==
    <<graph, snapshot, taintedNodes, chain, seqVars, concVars,
      assertVars, recVars, disVars, trackVars, mapVars, regVars, hashVars, forestVars, builderVars, diffVars, writerVars, nodeMapVars, lockVars, fetchVars, streamVars, deepVars>>

diffFrame ==
    <<graph, snapshot, taintedNodes, chain, seqVars, concVars,
      assertVars, recVars, disVars, trackVars, mapVars, regVars, hashVars, forestVars, builderVars, walkVars, writerVars, nodeMapVars, lockVars, fetchVars, streamVars, deepVars>>

writerFrame ==
    <<graph, snapshot, taintedNodes, chain, seqVars, concVars,
      assertVars, recVars, disVars, trackVars, mapVars, regVars, hashVars, forestVars, builderVars, walkVars, diffVars, nodeMapVars, lockVars, fetchVars, streamVars, deepVars>>

nodeMapFrame ==
    <<graph, snapshot, taintedNodes, chain, seqVars, concVars,
      assertVars, recVars, disVars, trackVars, mapVars, regVars, hashVars, forestVars, builderVars, walkVars, diffVars, writerVars, lockVars, fetchVars, streamVars, deepVars>>

lockFrame ==
    <<graph, snapshot, taintedNodes, chain, seqVars, concVars,
      assertVars, recVars, disVars, trackVars, mapVars, regVars, hashVars, forestVars, builderVars, walkVars, diffVars, writerVars, nodeMapVars, fetchVars, streamVars, deepVars>>

fetchFrame ==
    <<graph, snapshot, taintedNodes, chain, seqVars, concVars,
      assertVars, recVars, disVars, trackVars, mapVars, regVars, hashVars, forestVars, builderVars, walkVars, diffVars, writerVars, nodeMapVars, lockVars, streamVars, deepVars>>

streamFrame ==
    <<graph, snapshot, taintedNodes, chain, seqVars, concVars,
      assertVars, recVars, disVars, trackVars, mapVars, regVars, hashVars, forestVars, builderVars, walkVars, diffVars, writerVars, nodeMapVars, lockVars, fetchVars, deepVars>>

deepFrame ==
    <<graph, snapshot, taintedNodes, chain, seqVars, concVars,
      assertVars, recVars, disVars, trackVars, mapVars, regVars, hashVars, forestVars, builderVars, walkVars, diffVars, writerVars, nodeMapVars, lockVars, fetchVars, streamVars>>

\* End of the frames.

Appliers == 1..NumAppliers

Checkers == 1..NumCheckers

ConcValues == 1..ConcNodes

NoChecker == 0
NoOp == [kind |-> "none", n |-> 0]
NoLocal ==
    [taints |-> {}, assemblies |-> {}, changes |-> NoChanges, err |-> "none",
     returned |-> FALSE, chainBefore |-> ZeroHash]

TypePairs == Labels \X Labels

NoAssertion == [kind |-> "none", source |-> 0, target |-> 0, ret |-> "none"]

Components == 1..NumComponents

ForestHashes == 1..2

\* ForestHash{}, the zero value.
ZeroForest == 0

Goroutines == 1..NumGoroutines

NoGoroutine == 0

\* A goroutine that is in no call on the AttributeMap.
Idle == [op |-> "none"]

Registrars == 1..NumRegistrars

\* The labels and the Go types that are registered.
RegLabels == {"a", "b"}

RegTypes == {"T1", "T2"}

\* A goroutine that is in no RegisterLabel call.
NotRegistering == [at |-> "idle"]

\* No ForestHash was computed.
NoHash == [computed |-> FALSE]

\* The nil map, and the nil slice.
Nil == 0

NilSlice == [arr |-> Nil, len |-> 0]

\* No assembly is walked.
NoTree == [Root |-> << >>]

\* No difference has been computed.
NoDiff == [computed |-> FALSE]

\* No writer operation has been called.
NoWrite == [called |-> FALSE]

\* No ClearTaints has returned.
NoClear == [returned |-> FALSE]

\* No WhatChanged has drained the taints.
NoDrain == [drained |-> FALSE]

\* No WhatChanged has returned on the deep graph.
NoDeep == [called |-> FALSE]

\* The messages a publisher sends to the subscription of Stream.
Deliveries == 1..MaxMessages

\* No message is being handled.
NoMessage == [body |-> "none"]

NoOutcome == [op |-> "none"]

\* No relationship assertion has been called and the Recorder is empty.
LibIdle ==
    /\ agraph = EmptyGraph
    /\ akinds = [p \in TypePairs |-> "none"]
    /\ alast = NoAssertion
    /\ acount = 0
    /\ rsteps = << >>
    /\ rcalls = << >>
    /\ outcome = NoOutcome
    /\ dpc = "receive"
    /\ dmsg = NoMessage
    /\ dsent = {}
    /\ dfailed = {}
    /\ dreceived = 0
    /\ dacks = 0
    /\ tpc = "receive"
    /\ amap = << >>
    /\ trackedGraph = ZeroForest
    /\ tmsg = NoMessage
    /\ treceived = 0
    /\ tlatest = [c \in Components |-> "none"]
    /\ tlastAfter = ZeroForest
    /\ tcontinuous = TRUE
    /\ cmap = << >>
    /\ mu = NoGoroutine
    /\ gpc = [g \in Goroutines |-> Idle]
    /\ mcalls = 0
    /\ mfatal = FALSE
    /\ mLabelToType = << >>
    /\ mTypeToLabel = << >>
    /\ regpc = [g \in Registrars |-> NotRegistering]
    /\ regcalls = 0
    /\ hleft = AssemblyGraph(<< >>, {}, {})
    /\ hright = AssemblyGraph(<< >>, {}, {})
    /\ frefs = << >>
    /\ fhash = NoHash
    /\ fagain = NoHash
    /\ fsame = TRUE
    /\ barrays = << >>
    /\ bmaps = << >>
    /\ broots = NilSlice
    /\ bnodes = Nil
    /\ bneighbours = {}
    /\ bgiven = << >>
    /\ bassembled = << >>
    /\ bcalls = 0
    /\ wpc = "idle"
    /\ wtree = NoTree
    /\ wnext = 1
    /\ wstack = << >>
    /\ wlog = << >>
    /\ wvisitors = 1
    /\ dsnapshot = EmptySnapshot
    /\ dpartial = EmptySnapshot
    /\ ddirtyRoots = {}
    /\ ddiff = NoDiff
    /\ gwgraph = EmptyGraph
    /\ gwtaints = {}
    /\ gwlast = NoWrite
    /\ gwcalls = 0
    /\ nmap = {}
    /\ nmu = NoGoroutine
    /\ npc = [g \in Goroutines |-> Idle]
    /\ nowed = {}
    /\ nlast = NoClear
    /\ ncalls = 0
    /\ kwriters = {}
    /\ klocker = NoChecker
    /\ kapc = [a \in Appliers |-> "idle"]
    /\ kcpc = [p \in Checkers |-> "idle"]
    /\ ktaints = {}
    /\ kinflight = {}
    /\ kowed = {}
    /\ klast = NoDrain
    /\ qgraph = EmptyGraph
    /\ qtaints = {}
    /\ qwriters = {}
    /\ qlocker = NoChecker
    /\ qapplies = 0
    /\ qpc = "new"
    /\ qdrained = {}
    /\ qleft = {}
    /\ qseen = EmptySnapshot
    /\ qfetched = << >>
    /\ ssub = [m \in Deliveries |-> "none"]
    /\ skind = [m \in Deliveries |-> "none"]
    /\ sacks = [m \in Deliveries |-> 0]
    /\ shandled = [m \in Deliveries |-> 0]
    /\ sapplied = {}
    /\ spc = "receive"
    /\ scur = 0
    /\ scause = "none"
    /\ pgraph = EmptyGraph
    /\ ptaints = {}
    /\ psnapshot = EmptySnapshot
    /\ pbase = EmptyGraph
    /\ plast = NoDeep

\* The concurrent engine at rest, as the engine driven by one caller sees it.
ConcIdle ==
    /\ writers = {}
    /\ locker = NoChecker
    /\ apc = [a \in Appliers |-> "idle"]
    /\ aop = [a \in Appliers |-> NoOp]
    /\ cpc = [p \in Checkers |-> "idle"]
    /\ cloc = [p \in Checkers |-> NoLocal]
    /\ applies = 0
    /\ calls = 0
    /\ fatal = FALSE

\* What a consumer of the notifications knows: the hash of every component
\* notified as created or updated, forgotten when it is notified as removed.
Notify(known, changes) ==
    LET gone == {r.id : r \in changes.Removed}
        told == changes.Created \cup
                {[id |-> u.id, hash |-> u.hash] : u \in changes.Updated}
    IN  [id \in (DOMAIN known \cup {t.id : t \in told}) \ gone |->
            IF id \in {t.id : t \in told}
            THEN (CHOOSE t \in told : t.id = id).hash
            ELSE known[id]]

\* first: the Apply is the first since the last successful WhatChanged.
NoTx == [active |-> FALSE, g |-> EmptyGraph, first |-> FALSE]
\* alone: the Apply failed and was the first since the last successful
\* WhatChanged.
NoApply == [ret |-> "none", dirty |-> FALSE, alone |-> FALSE]
NoCall ==
    [called |-> FALSE, err |-> "none", changes |-> NoChanges,
     snapBefore |-> EmptySnapshot, taintsBefore |-> {}, chainBefore |-> ZeroHash,
     quietBefore |-> FALSE, failedAlone |-> FALSE]

\* NewEngine on an empty database: the snapshot is captured by a full scan.
Init ==
    /\ graph = EmptyGraph
    /\ snapshot = captureSnapshot(graph)
    /\ taintedNodes = {}
    /\ tx = NoTx
    /\ writes = 0
    /\ applyRet = NoApply
    /\ last = NoCall
    /\ chain = GraphHash(snapshot)
    /\ quiet = TRUE
    /\ dropped = FALSE
    /\ notified = snapshot
    /\ ConcIdle
    /\ LibIdle

\* Apply: the write lock is taken and the transaction is opened.
ApplyBegin ==
    /\ ~ tx.active
    /\ tx' = [active |-> TRUE, g |-> graph, first |-> quiet]
    /\ applyRet' = NoApply
    /\ last' = NoCall
    /\ quiet' = FALSE
    /\ UNCHANGED <<graph, snapshot, taintedNodes, writes, chain, dropped, notified, concVars, libVars>>

\* One writer operation of the compilation, within the transaction.
WriterStep(r) ==
    /\ writes' = writes + 1
    /\ tx' = [tx EXCEPT !.g = r.g]
    /\ taintedNodes' = Taint(taintedNodes, r.taints)
    /\ UNCHANGED <<graph, snapshot, applyRet, last, chain, quiet, dropped, notified, concVars, libVars>>

\* The compilation may perform one more writer operation.
Writing == tx.active /\ writes < MaxWrites

AssertNode ==
    /\ Writing
    /\ \E n \in Values : WriterStep(assertNode(tx.g, n))

RetractNode ==
    /\ Writing
    /\ \E n \in Values : WriterStep(retractNode(tx.g, n))

\* The graph is acyclic by contract: callers assert no edge that closes a cycle.
AssertEdge ==
    /\ Writing
    /\ \E from \in Values, to \in Values :
           /\ from # to
           /\ ~ Reaches(tx.g, to, from)
           /\ WriterStep(assertEdge(tx.g, from, to))

RetractEdges ==
    /\ Writing
    /\ \E n \in Values, label \in Labels : WriterStep(retractEdges(tx.g, n, label))

\* A transaction that commits whatever the compilation returned.
AlwaysCommit(committed, view, err) == view

\* The graph the transaction leaves: committed on a nil error, rolled back
\* otherwise.
EndTransaction(committed, view, err) == IF err THEN committed ELSE view

\* The compilation returns (err: it returned a non-nil error or the context
\* was cancelled), the transaction ends and the write lock is released.
ApplyReturn ==
    \E err \in BOOLEAN :
        /\ tx.active
        /\ graph' = EndTransaction(graph, tx.g, err)
        /\ applyRet' = [ret |-> IF err THEN "error" ELSE "nil",
                        dirty |-> tx.g # graph, alone |-> err /\ tx.first]
        /\ tx' = NoTx
        /\ UNCHANGED <<snapshot, taintedNodes, writes, last, chain, quiet, dropped, notified, concVars, libVars>>

WhatChanged ==
    \E fault \in Faults :
        /\ ~ tx.active
        /\ fault = "component" => taintedNodes # {}
        /\ LET r == WhatChangedResult(snapshot, graph, taintedNodes, fault)
           IN  /\ snapshot' = r.snapshot
               /\ taintedNodes' = r.taints
               /\ last' = [called |-> TRUE, err |-> r.err, changes |-> r.changes,
                           snapBefore |-> snapshot, taintsBefore |-> taintedNodes,
                           chainBefore |-> chain, quietBefore |-> quiet,
                           failedAlone |-> applyRet.alone]
               /\ chain' = IF r.err = "none" THEN r.changes.GraphAfter ELSE chain
               /\ quiet' = (quiet \/ r.err = "none")
               /\ dropped' = (dropped \/ (r.err # "none" /\ taintedNodes # {}))
               /\ notified' = IF r.err = "none" THEN Notify(notified, r.changes)
                               ELSE notified
        /\ applyRet' = NoApply
        /\ UNCHANGED <<graph, tx, writes, concVars, libVars>>

Next ==
    \/ ApplyBegin
    \/ AssertNode
    \/ RetractNode
    \/ AssertEdge
    \/ RetractEdges
    \/ ApplyReturn
    \/ WhatChanged

Spec == Init /\ [][Next]_vars

(***************************************************************************)
(* The engine driven by several goroutines: Appliers call Apply, each with *)
(* a compilation of at most one AssertNode or RetractNode, and Checkers    *)
(* call WhatChanged.  txMutex is a sync.RWMutex taken in read mode by      *)
(* WLock and in write mode by Lock: an announced Lock keeps new WLock      *)
(* callers out and waits for the present ones to leave.                    *)
(***************************************************************************)
\* A WLock that passes whatever Lock is announced or held.
WLockNeverWaits(l) == TRUE

\* WLock passes unless a Lock is announced or held.
WLockAvailable(l) == l = NoChecker

\* An announced Lock that waits for nothing.
LockNeverWaits(w) == TRUE

\* An announced Lock is granted once every WLock holder has left.
LockAvailable(w) == w = {}

\* What the writer operation op does on graph g.
Perform(op, g) ==
    IF op.kind = "assertNode" THEN assertNode(g, op.n) ELSE retractNode(g, op.n)

ConcInit ==
    /\ graph = EmptyGraph
    /\ snapshot = captureSnapshot(graph)
    /\ taintedNodes = {}
    /\ chain = GraphHash(snapshot)
    /\ tx = NoTx
    /\ writes = 0
    /\ applyRet = NoApply
    /\ last = NoCall
    /\ quiet = TRUE
    /\ dropped = FALSE
    /\ notified = snapshot
    /\ ConcIdle
    /\ LibIdle

\* Apply takes the mutex in write mode and opens its transaction.
ConcApplyBegin ==
    \E a \in Appliers :
        /\ ~ fatal
        /\ apc[a] = "idle"
        /\ applies < MaxApplies
        /\ WLockAvailable(locker)
        /\ writers' = writers \cup {a}
        /\ apc' = [apc EXCEPT ![a] = "tx"]
        /\ applies' = applies + 1
        /\ UNCHANGED <<graph, snapshot, taintedNodes, chain, seqVars, libVars,
                       locker, aop, cpc, cloc, calls, fatal>>

\* The compilation performs its writer operation: the taints are recorded at
\* once, the graph changes when the transaction commits.
ConcWrite ==
    \E a \in Appliers, kind \in {"assertNode", "retractNode"}, n \in ConcValues :
        /\ ~ fatal
        /\ apc[a] = "tx"
        /\ aop[a] = NoOp
        /\ aop' = [aop EXCEPT ![a] = [kind |-> kind, n |-> n]]
        /\ taintedNodes' =
               Taint(taintedNodes, Perform([kind |-> kind, n |-> n], graph).taints)
        /\ UNCHANGED <<graph, snapshot, chain, seqVars, libVars,
                       writers, locker, apc, cpc, cloc, applies, calls, fatal>>

\* The compilation returns, the transaction ends and the mutex is released.
ConcApplyReturn ==
    \E a \in Appliers, err \in BOOLEAN :
        /\ ~ fatal
        /\ apc[a] = "tx"
        /\ graph' = EndTransaction(graph,
                        IF aop[a] = NoOp THEN graph ELSE Perform(aop[a], graph).g,
                        err)
        /\ writers' = writers \ {a}
        /\ apc' = [apc EXCEPT ![a] = "idle"]
        /\ aop' = [aop EXCEPT ![a] = NoOp]
        /\ UNCHANGED <<snapshot, taintedNodes, chain, seqVars, libVars,
                       locker, cpc, cloc, applies, calls, fatal>>

\* WhatChanged calls Lock: the Lock is announced.
ConcLock ==
    \E p \in Checkers :
        /\ ~ fatal
        /\ cpc[p] = "idle"
        /\ calls < MaxCalls
        /\ locker = NoChecker
        /\ locker' = p
        /\ cpc' = [cpc EXCEPT ![p] = "announced"]
        /\ cloc' = [cloc EXCEPT ![p] = NoLocal]
        /\ calls' = calls + 1
        /\ UNCHANGED <<graph, snapshot, taintedNodes, chain, seqVars, libVars,
                       writers, apc, aop, applies, fatal>>

\* Lock returns: the mutex is held exclusively.
ConcLockAcquire ==
    \E p \in Checkers :
        /\ ~ fatal
        /\ cpc[p] = "announced"
        /\ LockAvailable(writers)
        /\ cpc' = [cpc EXCEPT ![p] = "locked"]
        /\ UNCHANGED <<graph, snapshot, taintedNodes, chain, seqVars, libVars,
                       writers, locker, apc, aop, cloc, applies, calls, fatal>>

\* fetchTaintedAssemblies under the lock: the taints are drained, the
\* assemblies are read, and the lock is released on return.  A failed read
\* makes WhatChanged return the error.
ConcFetch ==
    \E p \in Checkers, fault \in {"none", "fetch"} :
        /\ ~ fatal
        /\ cpc[p] = "locked"
        /\ taintedNodes' = ClearTaints(taintedNodes).m
        /\ locker' = NoChecker
        /\ IF fault = "fetch"
           THEN /\ cpc' = [cpc EXCEPT ![p] = "idle"]
                /\ cloc' = [cloc EXCEPT ![p] =
                      [NoLocal EXCEPT !.err = "fetch", !.returned = TRUE,
                                      !.chainBefore = chain]]
           ELSE /\ cpc' = [cpc EXCEPT ![p] = "diff"]
                /\ cloc' = [cloc EXCEPT ![p] =
                      [NoLocal EXCEPT
                          !.taints = ClearTaints(taintedNodes).nodes,
                          !.assemblies = fetchPartialAssemblies(
                                             graph, ClearTaints(taintedNodes).nodes)]]
        /\ UNCHANGED <<graph, snapshot, chain, seqVars, libVars,
                       writers, apc, aop, applies, calls, fatal>>

\* WhatChanged, back from fetchTaintedAssemblies: the assemblies are compared
\* with the snapshot and the changes are populated.  A drained taint that
\* yields no ComponentID, or a rootless assembly, makes the call return the
\* error.
ConcDiff ==
    \E p \in Checkers, fault \in {"none", "component"} :
        /\ ~ fatal
        /\ cpc[p] = "diff"
        /\ fault = "component" => cloc[p].taints # {}
        /\ IF fault = "component"
           THEN /\ cpc' = [cpc EXCEPT ![p] = "idle"]
                /\ cloc' = [cloc EXCEPT ![p] =
                      [NoLocal EXCEPT !.err = "component", !.returned = TRUE,
                                      !.chainBefore = chain]]
           ELSE IF rootlessAssemblies(cloc[p].assemblies) > 0
           THEN /\ cpc' = [cpc EXCEPT ![p] = "idle"]
                /\ cloc' = [cloc EXCEPT ![p] =
                      [NoLocal EXCEPT
                          !.changes = PopulateChanges(snapshot, cloc[p].assemblies,
                                                      cloc[p].taints),
                          !.err = "rootless", !.returned = TRUE,
                          !.chainBefore = chain]]
           ELSE /\ cpc' = [cpc EXCEPT ![p] = "update"]
                /\ cloc' = [cloc EXCEPT ![p].changes =
                      PopulateChanges(snapshot, cloc[p].assemblies, cloc[p].taints)]
        /\ UNCHANGED <<graph, snapshot, taintedNodes, chain, seqVars, libVars,
                       writers, locker, apc, aop, applies, calls, fatal>>

\* The snapshot is updated, GraphAfter is derived from it and WhatChanged
\* returns.
ConcUpdate ==
    \E p \in Checkers :
        /\ ~ fatal
        /\ cpc[p] = "update"
        /\ snapshot' = Update(snapshot, cloc[p].changes)
        /\ cloc' = [cloc EXCEPT
                      ![p].changes.GraphAfter = ComputeGraphAfter(snapshot, snapshot'),
                      ![p].returned = TRUE,
                      ![p].chainBefore = chain]
        /\ chain' = cloc'[p].changes.GraphAfter
        /\ cpc' = [cpc EXCEPT ![p] = "idle"]
        /\ UNCHANGED <<graph, taintedNodes, seqVars, libVars,
                       writers, locker, apc, aop, applies, calls, fatal>>

\* The snapshot is a Go map: when one call writes it while another call reads
\* or writes it, the runtime may stop the program with a fatal error.
MapRaceFatal ==
    \E p \in Checkers, q \in Checkers :
        /\ ~ fatal
        /\ p # q
        /\ cpc[p] = "update"
        /\ cpc[q] \in {"diff", "update"}
        /\ fatal' = TRUE
        /\ UNCHANGED <<graph, snapshot, taintedNodes, chain, seqVars, libVars,
                       writers, locker, apc, aop, cpc, cloc, applies, calls>>

ConcNext ==
    \/ ConcApplyBegin
    \/ ConcWrite
    \/ ConcApplyReturn
    \/ ConcLock
    \/ ConcLockAcquire
    \/ ConcFetch
    \/ ConcDiff
    \/ ConcUpdate
    \/ MapRaceFatal

SpecConc == ConcInit /\ [][ConcNext]_vars

(***************************************************************************)
(* The relationship assertions called one after another on a graph that    *)
(* starts empty and gets its edges from them alone.  Each ordered pair of  *)
(* node types is asserted with one relationship kind, and no call asks for *)
(* an edge that closes a cycle.                                            *)
(***************************************************************************)
Asserting(kind, source, target) ==
    /\ alast.ret # "panic"
    /\ acount < MaxAssertions
    /\ source # target
    /\ akinds[<<LabelOf(source), LabelOf(target)>>] \in {"none", kind}
    /\ ~ Reaches(agraph, target, source)

Asserted(kind, source, target, r) ==
    /\ agraph' = r.g
    /\ akinds' = [akinds EXCEPT ![<<LabelOf(source), LabelOf(target)>>] = kind]
    /\ alast' = [kind |-> kind, source |-> source, target |-> target, ret |-> r.ret]
    /\ acount' = acount + 1
    /\ UNCHANGED <<graph, snapshot, taintedNodes, chain, seqVars, concVars, recVars, moreVars>>

CallOneToOne ==
    \E source \in Values, target \in Values, failAt \in 0..3 :
        /\ Asserting("OneToOne", source, target)
        /\ Asserted("OneToOne", source, target, OneToOne(agraph, source, target, failAt))

CallOneToMany ==
    \E source \in Values, target \in Values, failAt \in 0..2 :
        /\ Asserting("OneToMany", source, target)
        /\ Asserted("OneToMany", source, target, OneToMany(agraph, source, target, failAt))

CallManyToOne ==
    \E source \in Values, target \in Values, failAt \in 0..2 :
        /\ Asserting("ManyToOne", source, target)
        /\ Asserted("ManyToOne", source, target, ManyToOne(agraph, source, target, failAt))

CallManyToMany ==
    \E source \in Values, target \in Values, failAt \in 0..1 :
        /\ Asserting("ManyToMany", source, target)
        /\ Asserted("ManyToMany", source, target, ManyToMany(agraph, source, target, failAt))

AssertNext == CallOneToOne \/ CallOneToMany \/ CallManyToOne \/ CallManyToMany

SpecAssert == Init /\ [][AssertNext]_vars

(***************************************************************************)
(* The Recorder, and the replay of its steps against a writer whose graph  *)
(* starts empty, directly or after Encode and Decode.                      *)
(***************************************************************************)
Recording == outcome.op = "none" /\ Len(rsteps) < MaxSteps

Record(method, args, step) ==
    /\ rsteps' = Append(rsteps, step)
    /\ rcalls' = Append(rcalls, [method |-> method, args |-> args])
    /\ UNCHANGED <<graph, snapshot, taintedNodes, chain, seqVars, concVars,
                   assertVars, outcome, moreVars>>

RecAssertNode ==
    \E node \in RecValues :
        /\ Recording
        /\ Record("AssertNode", <<node>>, [type |-> "assertNode", Node |-> node])

RecRetractNode ==
    \E node \in RecValues :
        /\ Recording
        /\ Record("RetractNode", <<node>>, [type |-> "retractNode", Node |-> node])

RecAssertEdge ==
    \E from \in RecValues, to \in RecValues :
        /\ Recording
        /\ from # to
        /\ Record("AssertEdge", <<from, to>>,
                  [type |-> "assertEdge", From |-> from, To |-> to])

RecRetractEdges ==
    \E node \in RecValues, kind \in Labels :
        /\ Recording
        /\ Record("RetractEdges", <<node, kind>>,
                  [type |-> "retractEdges", Node |-> node, Kind |-> kind])

RecAssertOneToOne ==
    \E source \in RecValues, target \in RecValues :
        /\ Recording
        /\ source # target
        /\ Record("AssertOneToOne", <<source, target>>,
                  [type |-> "assertOneToOne", Source |-> source, Target |-> target])

RecAssertOneToMany ==
    \E source \in RecValues, target \in RecValues :
        /\ Recording
        /\ source # target
        /\ Record("AssertOneToMany", <<source, target>>,
                  [type |-> "assertOneToMany", Source |-> source, Target |-> target])

RecAssertManyToOne ==
    \E source \in RecValues, target \in RecValues :
        /\ Recording
        /\ source # target
        /\ Record("AssertManyToOne", <<source, target>>,
                  [type |-> "assertManyToOne", Source |-> source, Target |-> target])

RecAssertManyToMany ==
    \E source \in RecValues, target \in RecValues :
        /\ Recording
        /\ source # target
        /\ Record("AssertManyToMany", <<source, target>>,
                  [type |-> "assertManyToMany", Source |-> source, Target |-> target])

Reset ==
    /\ outcome.op = "none"
    /\ rsteps' = << >>
    /\ rcalls' = << >>
    /\ UNCHANGED <<graph, snapshot, taintedNodes, chain, seqVars, concVars,
                   assertVars, outcome, moreVars>>

\* Recorder.Steps: a copy of the recorded steps.
Steps == [i \in 1..Len(rsteps) |-> rsteps[i]]

\* The calls a replay of the steps makes to a writer that never fails.
WriterCalls == Len(Replay(Steps, EmptyGraph, 0).log)

\* The compilation Replay(Steps()) runs against the writer.
ReplaySteps ==
    \E failAt \in 0..WriterCalls :
        /\ outcome.op = "none"
        /\ outcome' = [op |-> "replay", via |-> "steps", failAt |-> failAt,
                       run |-> Replay(Steps, EmptyGraph, failAt)]
        /\ UNCHANGED <<graph, snapshot, taintedNodes, chain, seqVars, concVars,
                       assertVars, rsteps, rcalls, moreVars>>

\* The steps are encoded, decoded by the receiver, and replayed there.
ReplayDecoded ==
    \E failAt \in 0..WriterCalls :
        /\ outcome.op = "none"
        /\ outcome' = [op |-> "replay", via |-> "decoded", failAt |-> failAt,
                       run |-> Replay(Decode(Encode(Steps)), EmptyGraph, failAt)]
        /\ UNCHANGED <<graph, snapshot, taintedNodes, chain, seqVars, concVars,
                       assertVars, rsteps, rcalls, moreVars>>

\* A consumer ranges over Targets(Steps()) and breaks at its stopAt-th value.
RangeTargets ==
    \E stopAt \in 0..RecNodes :
        /\ outcome.op = "none"
        /\ outcome' = [op |-> "targets", stopAt |-> stopAt,
                       yielded |-> Targets(Steps, stopAt)]
        /\ UNCHANGED <<graph, snapshot, taintedNodes, chain, seqVars, concVars,
                       assertVars, rsteps, rcalls, moreVars>>

RecNext ==
    \/ RecAssertNode \/ RecRetractNode \/ RecAssertEdge \/ RecRetractEdges
    \/ RecAssertOneToOne \/ RecAssertOneToMany
    \/ RecAssertManyToOne \/ RecAssertManyToMany
    \/ Reset \/ ReplaySteps \/ ReplayDecoded \/ RangeTargets

SpecCompilation == Init /\ [][RecNext]_vars

(***************************************************************************)
(* The disassembler: one GraphChanged message in, one ComponentChanged     *)
(* message out per changed component.  A component is named by its         *)
(* ComponentID and a forest hash by a number; a message body is the gob    *)
(* encoding of a GraphChanged, or bytes that do not decode.                *)
(***************************************************************************)
\* The GraphChanged values a notifier sends: the change lists name each
\* component at most once, and are empty exactly when the graph is as before.
GraphChanges ==
    {c \in [GraphBefore : ForestHashes, GraphAfter : ForestHashes,
            Created : SUBSET Components, Updated : SUBSET Components,
            Removed : SUBSET Components] :
        /\ c.Created \cap c.Updated = {}
        /\ c.Created \cap c.Removed = {}
        /\ c.Updated \cap c.Removed = {}
        /\ (c.Created \cup c.Updated \cup c.Removed = {}) <=>
               (c.GraphBefore = c.GraphAfter)}

Bodies == {[body |-> "garbage"]} \cup {[body |-> "gob", changed |-> c] : c \in GraphChanges}

IsEmpty(c) == c.GraphAfter = c.GraphBefore

disassembleGraph(changed) ==
    {[Assembly |-> <<"created", c>>, GraphHash |-> changed.GraphAfter] : c \in changed.Created}
    \cup
    {[Assembly |-> <<"updated", c>>, GraphHash |-> changed.GraphAfter] : c \in changed.Updated}
    \cup
    {[Assembly |-> <<"removed", c>>, GraphHash |-> changed.GraphAfter] : c \in changed.Removed}

\* Exec: source.Receive returns a message.
DisReceive ==
    \E msg \in Bodies :
        /\ dpc = "receive"
        /\ dreceived < MaxMessages
        /\ dmsg' = msg
        /\ dreceived' = dreceived + 1
        /\ dsent' = {}
        /\ dfailed' = {}
        /\ dpc' = "handle"
        /\ UNCHANGED <<dacks, disFrame>>

\* Exec: source.Receive returns an error, and the procedure returns when the
\* context is done and panics otherwise; or l.Continue() is false.
DisStop ==
    \E end \in {"returned", "panicked"} :
        /\ dpc = "receive"
        /\ dpc' = end
        /\ UNCHANGED <<dmsg, dsent, dfailed, dreceived, dacks, disFrame>>

\* handleMessage up to the start of the sending goroutines; Exec panics when
\* it returns an error.
DisHandle ==
    /\ dpc = "handle"
    /\ dpc' = IF dmsg.body # "gob" THEN "panicked"
              ELSE IF IsEmpty(dmsg.changed) THEN "ack"
              ELSE "sending"
    /\ UNCHANGED <<dmsg, dsent, dfailed, dreceived, dacks, disFrame>>

\* One goroutine of the errgroup: notifyChange encodes and sends, or fails.
DisNotifyChange ==
    /\ dpc = "sending"
    /\ \E c \in disassembleGraph(dmsg.changed) \ (dsent \cup dfailed), ok \in BOOLEAN :
           /\ dsent' = IF ok THEN dsent \cup {c} ELSE dsent
           /\ dfailed' = IF ok THEN dfailed ELSE dfailed \cup {c}
           /\ UNCHANGED <<dpc, dmsg, dreceived, dacks, disFrame>>

\* A Wait that reports no error whatever the goroutines returned.
DisWaitIgnoringErrors ==
    /\ dpc = "sending"
    /\ dsent \cup dfailed = disassembleGraph(dmsg.changed)
    /\ dpc' = "ack"
    /\ UNCHANGED <<dmsg, dsent, dfailed, dreceived, dacks, disFrame>>

\* g.Wait returns once every goroutine has, with the first error if any;
\* Exec panics on it.
DisWait ==
    /\ dpc = "sending"
    /\ dsent \cup dfailed = disassembleGraph(dmsg.changed)
    /\ dpc' = IF dfailed = {} THEN "ack" ELSE "panicked"
    /\ UNCHANGED <<dmsg, dsent, dfailed, dreceived, dacks, disFrame>>

\* Exec: msg.Ack, and back to the head of the loop.
DisAck ==
    /\ dpc = "ack"
    /\ dacks' = dacks + 1
    /\ dpc' = "receive"
    /\ UNCHANGED <<dmsg, dsent, dfailed, dreceived, disFrame>>

DisNext ==
    DisReceive \/ DisStop \/ DisHandle \/ DisNotifyChange \/ DisWait \/ DisAck

SpecDisassembler == Init /\ [][DisNext]_vars

(***************************************************************************)
(* AttributeMap and TrackAttribute.  An assembly is named by its           *)
(* ComponentID and carries the value the attribute function computes for   *)
(* it: 0 stands for an attribute that is not valid.                        *)
(***************************************************************************)
Attributes == 0..1

\* AttributeMap.attributeOf.
attributeOf(assembly) == [v |-> assembly.attr, ok |-> assembly.attr # 0]

AttributeMapUpdate(m, assembly) ==
    IF attributeOf(assembly).ok
    THEN [c \in DOMAIN m \cup {assembly.id} |->
              IF c = assembly.id THEN attributeOf(assembly).v ELSE m[c]]
    ELSE [c \in DOMAIN m \ {assembly.id} |-> m[c]]

\* m.Update for each assembly of a list, one at a time.
RECURSIVE UpdateEach(_, _)
UpdateEach(m, assemblies) ==
    IF assemblies = {} THEN m
    ELSE LET a == CHOOSE a \in assemblies : TRUE
         IN  UpdateEach(AttributeMapUpdate(m, a), assemblies \ {a})

Assemblies == [id : Components, attr : Attributes]

\* The GraphChanged values a notifier can send next: it creates components
\* that do not exist and updates or removes components that do.
TrackedChanges(latest) ==
    {c \in [GraphBefore : ForestHashes, GraphAfter : ForestHashes,
            Created : SUBSET Assemblies, Updated : SUBSET Assemblies,
            Removed : SUBSET Components] :
        /\ \A a \in c.Created : latest[a.id] \in {"none", "removed"}
        /\ \A a \in c.Updated : latest[a.id] \in {"valid", "invalid"}
        /\ \A r \in c.Removed : latest[r] \in {"valid", "invalid"}
        /\ \A a \in c.Created \cup c.Updated, b \in c.Created \cup c.Updated :
               a.id = b.id => a = b
        /\ \A a \in c.Updated : a.id \notin c.Removed
        /\ (c.Created = {} /\ c.Updated = {} /\ c.Removed = {}) <=>
               (c.GraphBefore = c.GraphAfter)}

\* The latest notification of each component after the message.
Notified(latest, changed) ==
    [c \in Components |->
        IF c \in changed.Removed THEN "removed"
        ELSE IF \E a \in changed.Created \cup changed.Updated : a.id = c /\ a.attr # 0
        THEN "valid"
        ELSE IF \E a \in changed.Created \cup changed.Updated : a.id = c
        THEN "invalid"
        ELSE latest[c]]

\* One round of the loop for a message whose body decodes.
TrackChanged ==
    \E changed \in TrackedChanges(tlatest) :
        /\ tpc = "receive"
        /\ treceived < MaxMessages
        /\ treceived' = treceived + 1
        /\ tmsg' = [body |-> "gob", changed |-> changed]
        /\ IF trackedGraph # ZeroForest /\ trackedGraph # changed.GraphBefore
           THEN /\ tpc' = "fatal"
                /\ UNCHANGED <<amap, tlatest, tlastAfter, tcontinuous>>
           ELSE /\ amap' = UpdateEach(UpdateEach(amap, changed.Created), changed.Updated)
                /\ tlatest' = Notified(tlatest, changed)
                /\ tlastAfter' = changed.GraphAfter
                /\ tcontinuous' = (tcontinuous /\ tlastAfter \in {ZeroForest, changed.GraphBefore})
                /\ tpc' = "receive"
        /\ UNCHANGED <<trackedGraph, trackFrame>>

\* One round of the loop for a message whose body does not decode.
TrackGarbage ==
    /\ tpc = "receive"
    /\ treceived < MaxMessages
    /\ treceived' = treceived + 1
    /\ tmsg' = [body |-> "garbage"]
    /\ tpc' = "fatal"
    /\ UNCHANGED <<amap, trackedGraph, tlatest, tlastAfter, tcontinuous, trackFrame>>

\* Receive reports that the context is cancelled, or l.Continue() is false.
TrackStop ==
    /\ tpc = "receive"
    /\ tpc' = "returned"
    /\ UNCHANGED <<amap, trackedGraph, tmsg, treceived, tlatest, tlastAfter,
                   tcontinuous, trackFrame>>

TrackNext == TrackChanged \/ TrackGarbage \/ TrackStop

SpecTrack == Init /\ [][TrackNext]_vars

(***************************************************************************)
(* One AttributeMap used by several goroutines.  Find and Update hold mu   *)
(* from their first statement to their return; Iter ranges over the map    *)
(* without it, one entry at a time.                                        *)
(***************************************************************************)
MapCalling(g) == ~ mfatal /\ gpc[g].op = "none" /\ mcalls < MaxMapCalls

\* Find: a.mu.Lock().
FindLock(g) ==
    \E id \in Components :
        /\ MapCalling(g)
        /\ mu = NoGoroutine
        /\ mu' = g
        /\ gpc' = [gpc EXCEPT ![g] = [op |-> "Find", id |-> id]]
        /\ mcalls' = mcalls + 1
        /\ UNCHANGED <<cmap, mfatal, mapFrame>>

\* Find: the read of a.m[id], and the deferred Unlock.
FindReturn(g) ==
    /\ ~ mfatal
    /\ gpc[g].op = "Find"
    /\ mu' = NoGoroutine
    /\ gpc' = [gpc EXCEPT ![g] = Idle]
    /\ UNCHANGED <<cmap, mcalls, mfatal, mapFrame>>

\* Update: a.mu.Lock().
UpdateLock(g) ==
    \E assembly \in Assemblies :
        /\ MapCalling(g)
        /\ mu = NoGoroutine
        /\ mu' = g
        /\ gpc' = [gpc EXCEPT ![g] = [op |-> "Update", assembly |-> assembly]]
        /\ mcalls' = mcalls + 1
        /\ UNCHANGED <<cmap, mfatal, mapFrame>>

\* Update: the write or the delete of the entry, and the deferred Unlock.
UpdateReturn(g) ==
    /\ ~ mfatal
    /\ gpc[g].op = "Update"
    /\ cmap' = AttributeMapUpdate(cmap, gpc[g].assembly)
    /\ mu' = NoGoroutine
    /\ gpc' = [gpc EXCEPT ![g] = Idle]
    /\ UNCHANGED <<mcalls, mfatal, mapFrame>>

\* Iter: the range statement begins.
IterBegin(g) ==
    /\ MapCalling(g)
    /\ gpc' = [gpc EXCEPT ![g] = [op |-> "Iter", seen |-> {}]]
    /\ mcalls' = mcalls + 1
    /\ UNCHANGED <<cmap, mu, mfatal, mapFrame>>

\* Iter: the range reads the next entry and fn, called with it, returns true.
IterEntry(g) ==
    /\ ~ mfatal
    /\ gpc[g].op = "Iter"
    /\ \E k \in DOMAIN cmap \ gpc[g].seen :
           gpc' = [gpc EXCEPT ![g].seen = @ \cup {k}]
    /\ UNCHANGED <<cmap, mu, mcalls, mfatal, mapFrame>>

\* Iter: the range is over, or fn returns false.
IterReturn(g) ==
    /\ ~ mfatal
    /\ gpc[g].op = "Iter"
    /\ gpc' = [gpc EXCEPT ![g] = Idle]
    /\ UNCHANGED <<cmap, mu, mcalls, mfatal, mapFrame>>

\* An Update writes the map while an Iter ranges over it: a data race, on
\* which the runtime may stop the program (concurrent map iteration and map
\* write) or let both go on.
MapIterRaceFatal ==
    /\ ~ mfatal
    /\ \E g \in Goroutines, h \in Goroutines :
           gpc[g].op = "Iter" /\ gpc[h].op = "Update"
    /\ mfatal' = TRUE
    /\ UNCHANGED <<cmap, mu, gpc, mcalls, mapFrame>>

MapNext ==
    \/ \E g \in Goroutines :
           \/ FindLock(g) \/ FindReturn(g)
           \/ UpdateLock(g) \/ UpdateReturn(g)
           \/ IterBegin(g) \/ IterEntry(g) \/ IterReturn(g)
    \/ MapIterRaceFatal

SpecMap == Init /\ [][MapNext]_vars

(***************************************************************************)
(* The node registry: two sync.Map tables written by RegisterLabel, which  *)
(* goroutines may call at the same time.  Each sync.Map operation is       *)
(* atomic; a call is made of up to three of them.                          *)
(***************************************************************************)
\* sync.Map.LoadOrStore: the table afterwards, the value now at the key and
\* whether it was there before.
LoadOrStore(m, key, value) ==
    IF key \in DOMAIN m
    THEN [m |-> m, actual |-> m[key], loaded |-> TRUE]
    ELSE [m |-> [k \in DOMAIN m \cup {key} |-> IF k = key THEN value ELSE m[k]],
          actual |-> value, loaded |-> FALSE]

\* sync.Map.Delete.
Delete(m, key) == [k \in DOMAIN m \ {key} |-> m[k]]

\* r.mLabelToType.LoadOrStore(label, rt): panic on another type, else go on.
RegisterStoreLabel(g) ==
    \E label \in RegLabels, rt \in RegTypes :
        /\ regpc[g].at = "idle"
        /\ regcalls < MaxRegisterCalls
        /\ regcalls' = regcalls + 1
        /\ LET r == LoadOrStore(mLabelToType, label, rt)
           IN  /\ mLabelToType' = r.m
               /\ regpc' = [regpc EXCEPT ![g] =
                      IF r.loaded /\ r.actual # rt
                      THEN NotRegistering
                      ELSE [at |-> "type", label |-> label, rt |-> rt]]
        /\ UNCHANGED <<mTypeToLabel, regFrame>>

\* r.mTypeToLabel.LoadOrStore(rt, label): return, or go on to the rollback.
RegisterStoreType(g) ==
    /\ regpc[g].at = "type"
    /\ LET r == LoadOrStore(mTypeToLabel, regpc[g].rt, regpc[g].label)
       IN  /\ mTypeToLabel' = r.m
           /\ regpc' = [regpc EXCEPT ![g] =
                  IF r.loaded /\ r.actual # regpc[g].label
                  THEN [@ EXCEPT !.at = "rollback"]
                  ELSE NotRegistering]
    /\ UNCHANGED <<mLabelToType, regcalls, regFrame>>

\* r.mLabelToType.Delete(label), then the panic.
RegisterRollback(g) ==
    /\ regpc[g].at = "rollback"
    /\ mLabelToType' = Delete(mLabelToType, regpc[g].label)
    /\ regpc' = [regpc EXCEPT ![g] = NotRegistering]
    /\ UNCHANGED <<mTypeToLabel, regcalls, regFrame>>

RegistryNext ==
    \E g \in Registrars :
        RegisterStoreLabel(g) \/ RegisterStoreType(g) \/ RegisterRollback(g)

SpecRegistry == Init /\ [][RegistryNext]_vars

(***************************************************************************)
(* AssemblyID and AssemblyHash as functions of the assembly.  The left     *)
(* assembly is any assembly over a few node hashes, the right one is       *)
(* reached from it by edits, one node, edge, payload or root list at a     *)
(* time.                                                                   *)
(***************************************************************************)
NodeHashes == 1..2

\* The lists of at most n roots taken from a set of nodes.
RootLists(nodes, n) == UNION {[1..k -> nodes] : k \in 0..n}

\* The assemblies: every root and every end of an edge is a node.
HashGraphs ==
    UNION {{AssemblyGraph(r, V, E) : r \in RootLists(V, MaxRoots), E \in SUBSET (V \X V)} :
           V \in SUBSET NodeHashes}

\* An assembly is taken, and compared with itself until it is edited.
HashDraw ==
    \E a \in HashGraphs :
        /\ hright = hleft
        /\ hleft' = a
        /\ hright' = a
        /\ UNCHANGED hashFrame

\* A node is added.
HashAddNode ==
    \E n \in NodeHashes \ hright.Vertices :
        /\ hright' = [hright EXCEPT !.Vertices = @ \cup {n}]
        /\ UNCHANGED <<hleft, hashFrame>>

\* A node that is no root and has no edge is removed.
HashRemoveNode ==
    \E n \in hright.Vertices :
        /\ \A i \in DOMAIN hright.Root : hright.Root[i] # n
        /\ \A e \in hright.Neighbours : e[1] # n /\ e[2] # n
        /\ hright' = [hright EXCEPT !.Vertices = @ \ {n}]
        /\ UNCHANGED <<hleft, hashFrame>>

\* An edge is added.
HashAddEdge ==
    \E e \in (hright.Vertices \X hright.Vertices) \ hright.Neighbours :
        /\ hright' = [hright EXCEPT !.Neighbours = @ \cup {e}]
        /\ UNCHANGED <<hleft, hashFrame>>

\* An edge is removed.
HashRemoveEdge ==
    \E e \in hright.Neighbours :
        /\ hright' = [hright EXCEPT !.Neighbours = @ \ {e}]
        /\ UNCHANGED <<hleft, hashFrame>>

\* The payload of a node changes, and its hash with it, wherever it is.
HashChangePayload ==
    \E n \in hright.Vertices, m \in NodeHashes \ hright.Vertices :
        LET to(x) == IF x = n THEN m ELSE x
        IN  /\ hright' = AssemblyGraph([i \in DOMAIN hright.Root |-> to(hright.Root[i])],
                                       {to(x) : x \in hright.Vertices},
                                       {<<to(e[1]), to(e[2])>> : e \in hright.Neighbours})
            /\ UNCHANGED <<hleft, hashFrame>>

\* The roots are given anew: others, or the same in another order.
HashGiveRoots ==
    \E r \in RootLists(hright.Vertices, MaxRoots) :
        /\ r # hright.Root
        /\ hright' = [hright EXCEPT !.Root = r]
        /\ UNCHANGED <<hleft, hashFrame>>

HashNext ==
    \/ HashDraw
    \/ HashAddNode
    \/ HashRemoveNode
    \/ HashAddEdge
    \/ HashRemoveEdge
    \/ HashChangePayload
    \/ HashGiveRoots

SpecHash == Init /\ [][HashNext]_vars

(***************************************************************************)
(* ComputeForestHash and HashComponents.  A Go map is ranged over in an    *)
(* order that is not specified: HashComponents is computed for every       *)
(* order in which the range can yield the keys.                            *)
(***************************************************************************)
\* The component IDs and the components given: AssemblyRef values.
ForestIDs == {<<1>>, <<2>>, <<1, 2>>}

AssemblyRefs == [id : ForestIDs, hash : 1..2]

\* The orders in which the keys of a map can be ranged over.
RangeOrders(m) ==
    {o \in [1..Cardinality(DOMAIN m) -> DOMAIN m] :
        \A i \in DOMAIN o, j \in DOMAIN o : o[i] = o[j] => i = j}

\* The orders in which n components can be given.
Orders(n) == {p \in [1..n -> 1..n] : \A i \in 1..n, j \in 1..n : p[i] = p[j] => i = j}

\* The map ComputeForestHash builds: a later component replaces an earlier
\* one of the same ID.
RECURSIVE Precomputed(_)
Precomputed(components) ==
    IF components = <<>> THEN << >>
    ELSE LET n == Len(components)
             m == Precomputed(SubSeq(components, 1, n - 1))
             c == components[n]
         IN  [id \in DOMAIN m \cup {c.id} |-> IF id = c.id THEN c.hash ELSE m[id]]

\* The keys as the range yields them: what is hashed when the sort is left
\* out.
RefsAsRanged(refs) == refs

\* sort.Slice of the keys, which are distinct.
SortRefs(refs) == SortedIds({refs[i] : i \in DOMAIN refs})

\* HashComponents when the range yields the keys in the order refs.
HashComponentsRanged(components, refs) ==
    [i \in DOMAIN refs |-> components[SortRefs(refs)[i]]]

ComputeForestHash(components, refs) ==
    HashComponentsRanged(Precomputed(components), refs)

\* One more component is given.
ForestGive ==
    \E ref \in AssemblyRefs :
        /\ Len(frefs) < MaxRefs
        /\ frefs' = Append(frefs, ref)
        /\ fhash' = NoHash
        /\ fagain' = NoHash
        /\ fsame' = TRUE
        /\ UNCHANGED forestFrame

\* ComputeForestHash is called; it ranges over its map in the order o.
ForestCompute ==
    \E o \in RangeOrders(Precomputed(frefs)) :
        /\ ~ fhash.computed
        /\ fhash' = [computed |-> TRUE, hash |-> ComputeForestHash(frefs, o)]
        /\ UNCHANGED <<frefs, fagain, fsame, forestFrame>>

\* ComputeForestHash is called once more, with the components in the order
\* p; it ranges over its map in an order of its own.
ForestComputeAgain ==
    \E p \in Orders(Len(frefs)) :
        LET again == [i \in DOMAIN frefs |-> frefs[p[i]]]
        IN  \E o \in RangeOrders(Precomputed(again)) :
                /\ fhash.computed
                /\ ~ fagain.computed
                /\ fagain' = [computed |-> TRUE, hash |-> ComputeForestHash(again, o)]
                /\ fsame' = (again = frefs)
                /\ UNCHANGED <<frefs, fhash, forestFrame>>

\* The components are forgotten.
ForestClear ==
    /\ frefs # << >>
    /\ frefs' = << >>
    /\ fhash' = NoHash
    /\ fagain' = NoHash
    /\ fsame' = TRUE
    /\ UNCHANGED forestFrame

ForestNext == ForestGive \/ ForestCompute \/ ForestComputeAgain \/ ForestClear

SpecForest == Init /\ [][ForestNext]_vars

(***************************************************************************)
(* The AssemblyBuilder.  Slices and maps are references: a slice is an     *)
(* array and a length, a map an address, and what is written through one   *)
(* reference is read through every other reference to the same array or    *)
(* map.                                                                    *)
(***************************************************************************)
BuilderValues == 1..2

\* The elements of a slice, and the keys of a map.
SliceOf(arrays, s) == IF s.arr = Nil THEN << >> ELSE SubSeq(arrays[s.arr], 1, s.len)

MapOf(maps, ref) == IF ref = Nil THEN {} ELSE maps[ref]

\* The hashes of a list of values.
HashesOf(values) == [i \in DOMAIN values |-> MustContentAddress(values[i])]

\* AssemblyBuilder.Nodes: the map is made if there is none, and the nodes
\* are put into it.
builderNodes(maps, ref, values) ==
    LET made == IF ref = Nil THEN Append(maps, {}) ELSE maps
        at == IF ref = Nil THEN Len(maps) + 1 ELSE ref
    IN  [maps |-> [made EXCEPT ![at] = @ \cup {MustContentAddress(values[i]) : i \in DOMAIN values}],
         ref |-> at]

\* AssemblyBuilder.Roots, after its call of Nodes: a longer slice is cut
\* down and keeps its array, otherwise an array is made; then the roots are
\* written into it.
builderRoots(arrays, s, root) ==
    LET n == Len(root)
        written(array) == [i \in DOMAIN array |-> IF i <= n THEN HashesOf(root)[i] ELSE array[i]]
    IN  IF s.len > n
        THEN [arrays |-> [arrays EXCEPT ![s.arr] = written(@)],
              slice |-> [arr |-> s.arr, len |-> n]]
        ELSE [arrays |-> Append(arrays, HashesOf(root)),
              slice |-> [arr |-> Len(arrays) + 1, len |-> n]]

\* Assemble handing out the roots of the builder themselves.
ShareRoots(arrays, s) == [arrays |-> arrays, slice |-> s]

\* Assemble: the roots are copied into an array of their own.
CopyRoots(arrays, s) ==
    IF s.len = 0 THEN [arrays |-> arrays, slice |-> NilSlice]
    ELSE [arrays |-> Append(arrays, SliceOf(arrays, s)),
          slice |-> [arr |-> Len(arrays) + 1, len |-> s.len]]

\* Assemble: the nodes are copied into a map of their own.
CopyNodes(maps, ref) ==
    IF MapOf(maps, ref) = {} THEN [maps |-> maps, ref |-> Nil]
    ELSE [maps |-> Append(maps, MapOf(maps, ref)), ref |-> Len(maps) + 1]

\* What an assembly holds, read through its references.
AssemblyOf(arrays, maps, g) ==
    AssemblyGraph(SliceOf(arrays, g.Root), MapOf(maps, g.Vertices), g.Neighbours)

BuilderCalling ==
    /\ bcalls < MaxBuilderCalls
    /\ bcalls' = bcalls + 1

BuilderNodes ==
    \E node \in RootLists(BuilderValues, 1) :
        /\ BuilderCalling
        /\ LET r == builderNodes(bmaps, bnodes, node)
           IN  /\ bmaps' = r.maps
               /\ bnodes' = r.ref
        /\ UNCHANGED <<barrays, broots, bneighbours, bgiven, bassembled, builderFrame>>

BuilderConnect ==
    \E source \in BuilderValues, target \in BuilderValues :
        /\ BuilderCalling
        /\ LET r == builderNodes(bmaps, bnodes, <<source, target>>)
           IN  /\ bmaps' = r.maps
               /\ bnodes' = r.ref
        /\ bneighbours' = bneighbours \cup
               {<<MustContentAddress(source), MustContentAddress(target)>>}
        /\ UNCHANGED <<barrays, broots, bgiven, bassembled, builderFrame>>

BuilderRoots ==
    \E root \in RootLists(BuilderValues, MaxRoots) :
        /\ BuilderCalling
        /\ LET r == builderNodes(bmaps, bnodes, root)
               w == builderRoots(barrays, broots, root)
           IN  /\ bmaps' = r.maps
               /\ bnodes' = r.ref
               /\ barrays' = w.arrays
               /\ broots' = w.slice
        /\ bgiven' = HashesOf(root)
        /\ UNCHANGED <<bneighbours, bassembled, builderFrame>>

BuilderReset ==
    /\ BuilderCalling
    /\ broots' = NilSlice
    /\ bnodes' = Nil
    /\ bneighbours' = {}
    /\ bgiven' = << >>
    /\ UNCHANGED <<barrays, bmaps, bassembled, builderFrame>>

BuilderAssemble ==
    /\ BuilderCalling
    /\ LET r == CopyRoots(barrays, broots)
           n == CopyNodes(bmaps, bnodes)
           g == AssemblyGraph(r.slice, n.ref, bneighbours)
       IN  /\ barrays' = r.arrays
           /\ bmaps' = n.maps
           /\ bassembled' = Append(bassembled,
                  [g |-> g, given |-> bgiven, returned |-> AssemblyOf(r.arrays, n.maps, g)])
    /\ UNCHANGED <<broots, bnodes, bneighbours, bgiven, builderFrame>>

BuilderNext ==
    \/ BuilderNodes
    \/ BuilderConnect
    \/ BuilderRoots
    \/ BuilderReset
    \/ BuilderAssemble

SpecBuilder == Init /\ [][BuilderNext]_vars

(***************************************************************************)
(* Walk and WalkSubtree, one Visit call at a time.  A visitor is known by  *)
(* a number; Visit returns nil, the visitor it was called on, or a         *)
(* visitor there was not before.                                           *)
(***************************************************************************)
WalkNodes == 1..3

\* The lists of distinct nodes.
Distinct(s) == \A i \in DOMAIN s, j \in DOMAIN s : s[i] = s[j] => i = j

\* The lists a set of nodes can be put in.
ListsOf(S) == {s \in [1..Cardinality(S) -> S] : Distinct(s)}

\* The acyclic assemblies that are walked: every edge goes from a node to a
\* later one, the children of a node are in any order, and so are the roots.
WalkTrees ==
    {[Root |-> r, Vertices |-> [n \in WalkNodes |-> <<"value", n>>], Neighbours |-> c] :
        r \in {s \in RootLists(WalkNodes, MaxRoots) : s # << >> /\ Distinct(s)},
        c \in {f \in [WalkNodes -> UNION {ListsOf(S) : S \in SUBSET WalkNodes}] :
                  \A n \in WalkNodes : \A i \in DOMAIN f[n] : f[n][i] > n}}

\* Assembly.Value and Assembly.EdgesOf.
Value(tree, n) == tree.Vertices[n]

\* An assembly that denies its edges.
EdgesOfNone(tree, n) == << >>

EdgesOf(tree, n) == tree.Neighbours[n]

\* The visitor every root is visited with.
FirstVisitor == 1

\* Walk is called.
WalkCall ==
    \E tree \in WalkTrees :
        /\ wpc = "idle"
        /\ wpc' = "walking"
        /\ wtree' = tree
        /\ UNCHANGED <<wnext, wstack, wlog, wvisitors, walkFrame>>

\* WalkSubtree(v, tree, node), called from within the calls in progress:
\* v.Visit(tree.Value(node)) returns w; on nil WalkSubtree returns, otherwise
\* it goes on with the children of the node.
WalkSubtree(v, node, callers) ==
    \E w \in {Nil, v, wvisitors + 1} :
        /\ wlog' = Append(wlog, [visitor |-> v, at |-> node, node |-> Value(wtree, node),
                                 w |-> w, depth |-> Len(callers)])
        /\ wvisitors' = IF w = wvisitors + 1 THEN w ELSE wvisitors
        /\ wstack' = IF w = Nil THEN callers
                     ELSE Append(callers, [v |-> w, node |-> node, child |-> 1])

\* Walk calls WalkSubtree for the next root.
WalkRoot ==
    /\ wpc = "walking"
    /\ wstack = << >>
    /\ wnext <= Len(wtree.Root)
    /\ wnext' = wnext + 1
    /\ WalkSubtree(FirstVisitor, wtree.Root[wnext], wstack)
    /\ UNCHANGED <<wpc, wtree, walkFrame>>

\* WalkSubtree calls itself for the next child of its node.
WalkChild ==
    /\ wpc = "walking"
    /\ wstack # << >>
    /\ LET d == Len(wstack)
           top == wstack[d]
       IN  /\ top.child <= Len(EdgesOf(wtree, top.node))
           /\ WalkSubtree(top.v, EdgesOf(wtree, top.node)[top.child],
                          [wstack EXCEPT ![d].child = @ + 1])
    /\ UNCHANGED <<wpc, wtree, wnext, walkFrame>>

\* WalkSubtree is through with the children: v.Visit(nil), and it returns.
WalkLeave ==
    /\ wpc = "walking"
    /\ wstack # << >>
    /\ LET d == Len(wstack)
           top == wstack[d]
       IN  /\ top.child > Len(EdgesOf(wtree, top.node))
           /\ wlog' = Append(wlog, [visitor |-> top.v, at |-> Nil, node |-> Nil,
                                    w |-> Nil, depth |-> d - 1])
           /\ wstack' = SubSeq(wstack, 1, d - 1)
    /\ UNCHANGED <<wpc, wtree, wnext, wvisitors, walkFrame>>

\* Walk returns.
WalkReturn ==
    /\ wpc = "walking"
    /\ wstack = << >>
    /\ wnext > Len(wtree.Root)
    /\ wpc' = "done"
    /\ UNCHANGED <<wtree, wnext, wstack, wlog, wvisitors, walkFrame>>

WalkNext == WalkCall \/ WalkRoot \/ WalkChild \/ WalkLeave \/ WalkReturn

SpecWalk == Init /\ [][WalkNext]_vars

\* Walk is one goroutine that runs on until it returns.
WalkRuns == SpecWalk /\ WF_vars(WalkNext)

(***************************************************************************)
(* snapshot.PartialDiff on its own: it is called on every snapshot, with   *)
(* every partial snapshot and every list of dirty roots, of components of  *)
(* one root.                                                               *)
(***************************************************************************)
DiffIds == {componentID(n) : n \in Values}

\* The hashes a component of root n may have: alone, or with one edge.
DiffHashesOf(n) ==
    {AssemblyHash(parseAssembly(n, {})),
     AssemblyHash(parseAssembly(n, {<<n, (n % NumNodes) + 1>>}))}

DiffSnapshots ==
    UNION {{f \in [{componentID(n) : n \in N} -> UNION {DiffHashesOf(n) : n \in Values}] :
               \A n \in N : f[componentID(n)] \in DiffHashesOf(n)} :
           N \in SUBSET Values}

\* The snapshots and the dirty roots are taken.
DiffDraw ==
    /\ ddiff = NoDiff
    /\ dsnapshot = EmptySnapshot /\ dpartial = EmptySnapshot /\ ddirtyRoots = {}
    /\ \E s \in DiffSnapshots, partial \in DiffSnapshots, dirtyRoots \in SUBSET DiffIds :
           /\ dsnapshot' = s
           /\ dpartial' = partial
           /\ ddirtyRoots' = dirtyRoots
    /\ UNCHANGED <<ddiff, diffFrame>>

\* PartialDiff is called and returns.
DiffCall ==
    /\ ddiff = NoDiff
    /\ ddiff' = [computed |-> TRUE,
                 diff |-> PartialDiff(dsnapshot, dpartial, ddirtyRoots)]
    /\ UNCHANGED <<dsnapshot, dpartial, ddirtyRoots, diffFrame>>

DiffNext ==
    \/ DiffDraw
    \/ DiffCall

SpecDiff == Init /\ [][DiffNext]_vars

(***************************************************************************)
(* A graphWriter on its own: the four operations are called one after      *)
(* another within one transaction.  An operation fails before its query    *)
(* ran (fault "run"), or after it ran, while its record is read (fault     *)
(* "record"); it taints at the very end, when nothing has failed.          *)
(***************************************************************************)
WriterFaults == {"none", "run", "record"}

\* The operation r ends: op names it and its operands.
WriterCalled(op, r, fault) ==
    /\ gwcalls < MaxWriterCalls
    /\ gwgraph' = IF fault = "run" THEN gwgraph ELSE r.g
    /\ gwtaints' = IF fault = "none" THEN Taint(gwtaints, r.taints) ELSE gwtaints
    /\ gwlast' = [called |-> TRUE, op |-> op, ok |-> fault = "none",
                  before |-> gwgraph, taintsBefore |-> gwtaints]
    /\ gwcalls' = gwcalls + 1
    /\ UNCHANGED writerFrame

WriterAssertNode ==
    \E n \in Values, fault \in WriterFaults :
        WriterCalled([kind |-> "assertNode", n |-> n], assertNode(gwgraph, n), fault)

WriterRetractNode ==
    \E n \in Values, fault \in WriterFaults :
        WriterCalled([kind |-> "retractNode", n |-> n], retractNode(gwgraph, n), fault)

WriterAssertEdge ==
    \E from \in Values, to \in Values, fault \in WriterFaults :
        /\ from # to
        /\ WriterCalled([kind |-> "assertEdge", from |-> from, to |-> to],
                        assertEdge(gwgraph, from, to), fault)

WriterRetractEdges ==
    \E n \in Values, label \in Labels, fault \in WriterFaults :
        WriterCalled([kind |-> "retractEdges", n |-> n, label |-> label],
                     retractEdges(gwgraph, n, label), fault)

WriterNext ==
    \/ WriterAssertNode
    \/ WriterRetractNode
    \/ WriterAssertEdge
    \/ WriterRetractEdges

SpecWriter == Init /\ [][WriterNext]_vars

(***************************************************************************)
(* A nodeMap shared by goroutines that call Taint and ClearTaints.  Each   *)
(* call locks mu, works on the map and unlocks mu when it returns.         *)
(***************************************************************************)
\* The elements of a list.
Range(s) == {s[i] : i \in DOMAIN s}

\* A goroutine calls Taint, with MaxTaintArgs nodes at most, or ClearTaints,
\* and waits for mu.  The nodes given to Taint are taken as its loop gets to
\* them.
NodeMapCall ==
    \E g \in Goroutines, op \in {"Taint", "ClearTaints"} :
        /\ npc[g] = Idle
        /\ ncalls < MaxTaintCalls
        /\ npc' = [npc EXCEPT ![g] = [op |-> op, at |-> "lock", nodes |-> << >>]]
        /\ ncalls' = ncalls + 1
        /\ UNCHANGED <<nmap, nmu, nowed, nlast, nodeMapFrame>>

\* t.mu.Lock() returns.
NodeMapLock ==
    \E g \in Goroutines :
        /\ npc[g] # Idle
        /\ npc[g].at = "lock"
        /\ nmu = NoGoroutine
        /\ nmu' = g
        /\ npc' = [npc EXCEPT ![g].at = "locked"]
        /\ UNCHANGED <<nmap, nowed, nlast, ncalls, nodeMapFrame>>

\* Taint: one turn of the loop over the nodes.
TaintNode ==
    \E g \in Goroutines, node \in Values :
        /\ npc[g] # Idle
        /\ npc[g].op = "Taint" /\ npc[g].at = "locked"
        /\ Len(npc[g].nodes) < MaxTaintArgs
        /\ nmap' = Taint(nmap, {node})
        /\ npc' = [npc EXCEPT ![g].nodes = Append(@, node)]
        /\ UNCHANGED <<nmu, nowed, nlast, ncalls, nodeMapFrame>>

\* Taint returns after the last of its nodes: mu is unlocked.
TaintReturn ==
    \E g \in Goroutines :
        /\ npc[g] # Idle
        /\ npc[g].op = "Taint" /\ npc[g].at = "locked"
        /\ nmu' = NoGoroutine
        /\ npc' = [npc EXCEPT ![g] = Idle]
        /\ nowed' = nowed \cup Range(npc[g].nodes)
        /\ UNCHANGED <<nmap, nlast, ncalls, nodeMapFrame>>

\* ClearTaints copies the nodes, clears the map and returns: mu is unlocked.
ClearTaintsReturn ==
    \E g \in Goroutines :
        /\ npc[g] # Idle
        /\ npc[g].op = "ClearTaints" /\ npc[g].at = "locked"
        /\ nmap' = ClearTaints(nmap).m
        /\ nlast' = [returned |-> TRUE, nodes |-> SortedSeq(ClearTaints(nmap).nodes),
                     owed |-> nowed, before |-> nlast]
        /\ nowed' = {}
        /\ nmu' = NoGoroutine
        /\ npc' = [npc EXCEPT ![g] = Idle]
        /\ UNCHANGED <<ncalls, nodeMapFrame>>

NodeMapNext ==
    \/ NodeMapCall
    \/ NodeMapLock
    \/ TaintNode
    \/ TaintReturn
    \/ ClearTaintsReturn

SpecNodeMap == Init /\ [][NodeMapNext]_vars

(***************************************************************************)
(* txMutex and the taints under a stream of calls: every Applier calls     *)
(* Apply again and again, every Checker calls WhatChanged again and again. *)
(* A WLock that finds a Lock announced or held blocks, and the Unlock of   *)
(* that Lock unblocks every WLock that is blocked then.  Apply releases    *)
(* the mutex by a deferred WUnlock and fetchTaintedAssemblies by a         *)
(* deferred Unlock, however they end.                                      *)
(***************************************************************************)
LockValues == 1..LockNodes

\* How a call ends.
Exits == {"nil", "error", "panic"}

\* Apply is called: WLock is called.
LockApplyCall(a) ==
    /\ kapc[a] = "idle"
    /\ kapc' = [kapc EXCEPT ![a] = "wlock"]
    /\ UNCHANGED <<kwriters, klocker, kcpc, ktaints, kinflight, kowed, klast, lockFrame>>

\* WLock returns: the transaction begins.
LockApplyBegin(a) ==
    /\ kapc[a] = "wlock"
    /\ WLockAvailable(klocker)
    /\ kwriters' = kwriters \cup {a}
    /\ kapc' = [kapc EXCEPT ![a] = "tx"]
    /\ UNCHANGED <<klocker, kcpc, ktaints, kinflight, kowed, klast, lockFrame>>

\* A writer operation of the compilation taints a node.
LockApplyTaint(a) ==
    \E n \in LockValues :
        /\ kapc[a] = "tx"
        /\ ktaints' = Taint(ktaints, {n})
        /\ kinflight' = kinflight \cup {n}
        /\ UNCHANGED <<kwriters, klocker, kapc, kcpc, kowed, klast, lockFrame>>

\* The transaction ends, committed or rolled back: Apply is to return nil or
\* an error, or panics.
LockApplyEnd(a) ==
    /\ kapc[a] = "tx"
    /\ kapc' = [kapc EXCEPT ![a] = "deferred"]
    /\ UNCHANGED <<kwriters, klocker, kcpc, ktaints, kinflight, kowed, klast, lockFrame>>

\* The deferred WUnlock runs and Apply returns or goes on panicking.
LockApplyReturn(a) ==
    /\ kapc[a] = "deferred"
    /\ kwriters' = kwriters \ {a}
    /\ kapc' = [kapc EXCEPT ![a] = "idle"]
    /\ IF kwriters \ {a} = {}
       THEN kowed' = kowed \cup kinflight /\ kinflight' = {}
       ELSE UNCHANGED <<kowed, kinflight>>
    /\ UNCHANGED <<klocker, kcpc, ktaints, klast, lockFrame>>

\* WhatChanged calls Lock: the Lock is announced.
LockAnnounce(p) ==
    /\ kcpc[p] = "idle"
    /\ klocker = NoChecker
    /\ klocker' = p
    /\ kcpc' = [kcpc EXCEPT ![p] = "announced"]
    /\ UNCHANGED <<kwriters, kapc, ktaints, kinflight, kowed, klast, lockFrame>>

\* Lock returns: the mutex is held exclusively.
LockAcquire(p) ==
    /\ kcpc[p] = "announced"
    /\ LockAvailable(kwriters)
    /\ kcpc' = [kcpc EXCEPT ![p] = "locked"]
    /\ UNCHANGED <<kwriters, klocker, kapc, ktaints, kinflight, kowed, klast, lockFrame>>

\* fetchTaintedAssemblies drains the taints, reads the assemblies and
\* returns nil or an error, or panics.
LockDrain(p) ==
    \E exit \in Exits :
        /\ kcpc[p] = "locked"
        /\ ktaints' = ClearTaints(ktaints).m
        /\ klast' = [drained |-> TRUE, nodes |-> ClearTaints(ktaints).nodes,
                     owed |-> kowed, open |-> {a \in Appliers : kapc[a] \in {"tx", "deferred"}},
                     part |-> kinflight]
        /\ kowed' = {}
        /\ kcpc' = [kcpc EXCEPT ![p] = exit]
        /\ UNCHANGED <<kwriters, klocker, kapc, kinflight, lockFrame>>

\* The deferred Unlock runs and the blocked WLock calls return.
LockUnlock(p) ==
    /\ kcpc[p] \in Exits
    /\ klocker' = NoChecker
    /\ kcpc' = [kcpc EXCEPT ![p] = "idle"]
    /\ kwriters' = kwriters \cup {a \in Appliers : kapc[a] = "wlock"}
    /\ kapc' = [a \in Appliers |-> IF kapc[a] = "wlock" THEN "tx" ELSE kapc[a]]
    /\ UNCHANGED <<ktaints, kinflight, kowed, klast, lockFrame>>

LockNext ==
    \/ \E a \in Appliers : LockApplyCall(a)
    \/ \E a \in Appliers : LockApplyBegin(a)
    \/ \E a \in Appliers : LockApplyTaint(a)
    \/ \E a \in Appliers : LockApplyEnd(a)
    \/ \E a \in Appliers : LockApplyReturn(a)
    \/ \E p \in Checkers : LockAnnounce(p)
    \/ \E p \in Checkers : LockAcquire(p)
    \/ \E p \in Checkers : LockDrain(p)
    \/ \E p \in Checkers : LockUnlock(p)

SpecLock == Init /\ [][LockNext]_vars

\* txMutex alone: the calls as above, with compilations that taint nothing.
MutexNext ==
    \/ \E a \in Appliers : LockApplyCall(a)
    \/ \E a \in Appliers : LockApplyBegin(a)
    \/ \E a \in Appliers : LockApplyEnd(a)
    \/ \E a \in Appliers : LockApplyReturn(a)
    \/ \E p \in Checkers : LockAnnounce(p)
    \/ \E p \in Checkers : LockAcquire(p)
    \/ \E p \in Checkers : LockDrain(p)
    \/ \E p \in Checkers : LockUnlock(p)

\* A call that can go on goes on: a WLock or a Lock that is not kept out
\* returns, a transaction ends, and fetchTaintedAssemblies returns.
LockRuns ==
    /\ Init /\ [][MutexNext]_vars
    /\ \A a \in Appliers :
           WF_vars(LockApplyBegin(a)) /\ WF_vars(LockApplyEnd(a)) /\ WF_vars(LockApplyReturn(a))
    /\ \A p \in Checkers :
           WF_vars(LockAcquire(p)) /\ WF_vars(LockDrain(p)) /\ WF_vars(LockUnlock(p))

(***************************************************************************)
(* fetchPartialAssemblies, query by query, while Apply calls go on.  An    *)
(* Apply of AssertEdge operations has committed on the empty database;     *)
(* then WhatChanged is called once, and Apply calls with a compilation of  *)
(* one AssertNode or RetractNode are made by the Appliers.  Each query     *)
(* reads the graph as it is committed when it runs.                        *)
(***************************************************************************)
\* The graph and the taints an Apply of the AssertEdge operations edges
\* leaves.
RECURSIVE AssertEdges(_, _)
AssertEdges(r, edges) ==
    IF edges = << >> THEN r
    ELSE LET e == Head(edges)
             w == assertEdge(r.g, e[1], e[2])
         IN  AssertEdges([g |-> w.g, taints |-> Taint(r.taints, w.taints)], Tail(edges))

\* A loop that takes every record for the first of its assembly.
AlwaysFirst(seen, id) == TRUE

\* The assembly has not been met in this read.
FirstSeen(seen, id) == id \notin DOMAIN seen

\* The loop over the records of one query: an assembly met for the first
\* time is marked in seen and appended; one met before with another hash
\* makes the loop panic.
RECURSIVE FetchRecords(_, _)
FetchRecords(r, records) ==
    IF records = << >> \/ r.panic THEN r
    ELSE LET a == Head(records)
             id == AssemblyID(a)
             first == FirstSeen(r.seen, id)
         IN  FetchRecords(
                 [seen |-> IF first THEN SetRefs(r.seen, {[id |-> id, hash |-> AssemblyHash(a)]})
                           ELSE r.seen,
                  fetched |-> IF first THEN Append(r.fetched, a) ELSE r.fetched,
                  panic |-> ~ first /\ r.seen[id] # AssemblyHash(a)],
                 Tail(records))

\* The records the query of one tainted node returns, as a list.
RECURSIVE RecordsOf(_, _)
RecordsOf(g, roots) ==
    IF roots = {} THEN << >>
    ELSE LET r == CHOOSE x \in roots : \A y \in roots : x <= y
         IN  <<parseAssembly(r, Tuples(g, r))>> \o RecordsOf(g, roots \ {r})

\* An Apply of at most MaxWrites AssertEdge operations commits on the empty
\* database.
FetchSeed ==
    /\ qpc = "new"
    /\ \E edges \in UNION {[1..k -> {e \in Values \X Values : e[1] # e[2]}] : k \in 0..MaxWrites} :
           LET r == AssertEdges([g |-> EmptyGraph, taints |-> {}], edges)
           IN  /\ \A n \in r.g.nodes : ~ Reaches(r.g, n, n)
               /\ qgraph' = r.g
               /\ qtaints' = r.taints
    /\ qpc' = "idle"
    /\ UNCHANGED <<qwriters, qlocker, qapplies, qdrained, qleft, qseen, qfetched, fetchFrame>>

\* An Apply begins: WLock passes.
FetchApplyBegin ==
    \E a \in Appliers \ qwriters :
        /\ qpc \in {"idle", "announced", "locked"}
        /\ qapplies < MaxApplies
        /\ WLockAvailable(qlocker)
        /\ qwriters' = qwriters \cup {a}
        /\ qapplies' = qapplies + 1
        /\ UNCHANGED <<qgraph, qtaints, qlocker, qpc, qdrained, qleft, qseen, qfetched, fetchFrame>>

\* Its compilation performs its operation, the transaction commits and Apply
\* returns.
FetchApplyCommit ==
    \E a \in qwriters, kind \in {"assertNode", "retractNode"}, n \in Values :
        LET w == Perform([kind |-> kind, n |-> n], qgraph)
        IN  /\ qgraph' = w.g
            /\ qtaints' = Taint(qtaints, w.taints)
            /\ qwriters' = qwriters \ {a}
            /\ UNCHANGED <<qlocker, qapplies, qpc, qdrained, qleft, qseen, qfetched, fetchFrame>>

\* WhatChanged calls Lock.
FetchAnnounce ==
    /\ qpc = "idle"
    /\ qlocker' = CHOOSE c \in Checkers : TRUE
    /\ qpc' = "announced"
    /\ UNCHANGED <<qgraph, qtaints, qwriters, qapplies, qdrained, qleft, qseen, qfetched, fetchFrame>>

\* Lock returns and the taints are drained.
FetchDrain ==
    /\ qpc = "announced"
    /\ LockAvailable(qwriters)
    /\ qleft' = ClearTaints(qtaints).nodes
    /\ qtaints' = ClearTaints(qtaints).m
    /\ qpc' = "locked"
    /\ qdrained' = ClearTaints(qtaints).nodes
    /\ UNCHANGED <<qgraph, qwriters, qlocker, qapplies, qseen, qfetched, fetchFrame>>

\* The query of one tainted node, and the loop over its records.
FetchQuery ==
    \E taint \in qleft :
        LET r == FetchRecords([seen |-> qseen, fetched |-> qfetched, panic |-> FALSE],
                              RecordsOf(qgraph, TaintRoots(qgraph, taint)))
        IN  /\ qpc = "locked"
            /\ qseen' = r.seen
            /\ qfetched' = r.fetched
            /\ qleft' = qleft \ {taint}
            /\ qpc' = IF r.panic THEN "panic" ELSE "locked"
            /\ qlocker' = IF r.panic THEN NoChecker ELSE qlocker
            /\ UNCHANGED <<qgraph, qtaints, qwriters, qapplies, qdrained, fetchFrame>>

\* The last query is done: fetchPartialAssemblies returns and the lock is
\* released.
FetchReturn ==
    /\ qpc = "locked"
    /\ qleft = {}
    /\ qpc' = "done"
    /\ qlocker' = NoChecker
    /\ UNCHANGED <<qgraph, qtaints, qwriters, qapplies, qdrained, qleft, qseen, qfetched, fetchFrame>>

FetchNext ==
    \/ FetchSeed
    \/ FetchApplyBegin
    \/ FetchApplyCommit
    \/ FetchAnnounce
    \/ FetchDrain
    \/ FetchQuery
    \/ FetchReturn

SpecFetch == Init /\ [][FetchNext]_vars

(***************************************************************************)
(* EventSource.Stream with the handler of CompileChanges.  A publisher     *)
(* publishes messages; the subscription hands each of them to Receive      *)
(* once, in any order.  A message is a gob of a GraphChanged or garbage,   *)
(* and the Compiler or the Applier may fail on a GraphChanged.             *)
(***************************************************************************)
MessageKinds == {"good", "garbage", "uncompilable", "unappliable"}

\* A loop body that acknowledges the message once it has been handled.
AckLast == <<"decode", "handle", "ack">>

\* The body of the loop after Receive: Ack, the decoder, the handler.
StreamSteps == <<"ack", "decode", "handle">>

\* The statement that follows the step the procedure is at.
StepAfter(pc) ==
    LET i == CHOOSE k \in 1..Len(StreamSteps) : StreamSteps[k] = pc
    IN  IF i = Len(StreamSteps) THEN "receive" ELSE StreamSteps[i + 1]

\* A message is published to the topic of the subscription.
StreamPublish ==
    \E m \in Deliveries, kind \in MessageKinds :
        /\ ssub[m] = "none"
        /\ \A k \in 1..(m - 1) : ssub[k] # "none"
        /\ ssub' = [ssub EXCEPT ![m] = "pending"]
        /\ skind' = [skind EXCEPT ![m] = kind]
        /\ UNCHANGED <<sacks, shandled, sapplied, spc, scur, scause, streamFrame>>

\* Receive returns a message.
StreamReceive ==
    \E m \in Deliveries :
        /\ spc = "receive"
        /\ ssub[m] = "pending"
        /\ ssub' = [ssub EXCEPT ![m] = "delivered"]
        /\ scur' = m
        /\ spc' = StreamSteps[1]
        /\ UNCHANGED <<skind, sacks, shandled, sapplied, scause, streamFrame>>

\* Receive returns context.Canceled or DeadlineExceeded: the procedure
\* returns.
StreamCancelled ==
    /\ spc = "receive"
    /\ spc' = "returned"
    /\ UNCHANGED <<ssub, skind, sacks, shandled, sapplied, scur, scause, streamFrame>>

\* Receive returns another error: l.Fatal.
StreamReceiveFails ==
    /\ spc = "receive"
    /\ spc' = "fatal"
    /\ scause' = "receive"
    /\ UNCHANGED <<ssub, skind, sacks, shandled, sapplied, scur, streamFrame>>

\* msg.Ack()
StreamAck ==
    /\ spc = "ack"
    /\ sacks' = [sacks EXCEPT ![scur] = @ + 1]
    /\ ssub' = [ssub EXCEPT ![scur] = "acked"]
    /\ spc' = StepAfter("ack")
    /\ UNCHANGED <<skind, shandled, sapplied, scur, scause, streamFrame>>

\* The decoder reads the body into a new GraphChanged.
StreamDecode ==
    /\ spc = "decode"
    /\ IF skind[scur] = "garbage"
       THEN /\ spc' = "fatal"
            /\ scause' = "decode"
       ELSE /\ spc' = StepAfter("decode")
            /\ UNCHANGED scause
    /\ UNCHANGED <<ssub, skind, sacks, shandled, sapplied, scur, streamFrame>>

\* The handler of CompileChanges: the Compiler, then Apply.
StreamHandle ==
    /\ spc = "handle"
    /\ shandled' = [shandled EXCEPT ![scur] = @ + 1]
    /\ IF skind[scur] \in {"uncompilable", "unappliable"}
       THEN /\ spc' = "fatal"
            /\ scause' = "process"
            /\ UNCHANGED sapplied
       ELSE /\ sapplied' = sapplied \cup {scur}
            /\ spc' = StepAfter("handle")
            /\ UNCHANGED scause
    /\ UNCHANGED <<ssub, skind, sacks, scur, streamFrame>>

StreamNext ==
    \/ StreamPublish
    \/ StreamReceive
    \/ StreamCancelled
    \/ StreamReceiveFails
    \/ StreamAck
    \/ StreamDecode
    \/ StreamHandle

SpecStream == Init /\ [][StreamNext]_vars

(***************************************************************************)
(* The engine on an assembly that grows deeper than the fetch queries      *)
(* traverse: a chain 1 -> 2 -> ... that each Apply extends by one edge at  *)
(* its end, or cuts by retracting its last node.  A path of TraversalDepth *)
(* edges and one more edge are what a query collects, so the chain has     *)
(* room for one edge more than that.                                       *)
(***************************************************************************)
DeepValues == 1..(TraversalDepth + 3)

\* The last node of the chain, 0 when the graph is empty.
Tip(g) == IF g.nodes = {} THEN 0 ELSE CHOOSE n \in g.nodes : \A m \in g.nodes : m <= n

\* Apply of a compilation with one AssertEdge from the end of the chain to
\* a new node.
DeepAssertEdge ==
    \E from \in DeepValues :
        LET w == assertEdge(pgraph, from, from + 1)
        IN  /\ from = (IF pgraph.nodes = {} THEN 1 ELSE Tip(pgraph))
            /\ from + 1 \in DeepValues
            /\ pgraph' = w.g
            /\ ptaints' = Taint(ptaints, w.taints)
            /\ UNCHANGED <<psnapshot, pbase, plast, deepFrame>>

\* Apply of a compilation with one RetractNode of the end of the chain.
DeepRetractNode ==
    LET w == retractNode(pgraph, Tip(pgraph))
    IN  /\ pgraph.nodes # {}
        /\ pgraph' = w.g
        /\ ptaints' = Taint(ptaints, w.taints)
        /\ UNCHANGED <<psnapshot, pbase, plast, deepFrame>>

\* WhatChanged, the backend failing nowhere.
DeepWhatChanged ==
    LET r == WhatChangedResult(psnapshot, pgraph, ptaints, "none")
    IN  /\ ptaints' = r.taints
        /\ psnapshot' = r.snapshot
        /\ plast' = [called |-> TRUE, err |-> r.err, changes |-> r.changes,
                     changed |-> pgraph # pbase]
        /\ pbase' = IF r.err = "none" THEN pgraph ELSE pbase
        /\ UNCHANGED <<pgraph, deepFrame>>

DeepNext ==
    \/ DeepAssertEdge
    \/ DeepRetractNode
    \/ DeepWhatChanged

SpecDeep == Init /\ [][DeepNext]_vars

(***************************************************************************)
(* Properties of the engine driven by one caller.                          *)
(***************************************************************************)
\* The last WhatChanged returned without an error, and no Apply began since.
Returned == last.called /\ last.err = "none"

\* The last WhatChanged returned an error, and no Apply began since.
Failed == last.called /\ last.err # "none"

\* The (ComponentID, ComponentHash) pairs of the references of refs.
Pairs(refs) == {<<r.id, r.hash>> : r \in refs}

\* C1: the GraphBefore of every successfully returned GraphChanged equals the
\* GraphAfter of the previous successfully returned one, and for the first
\* call the hash of the snapshot NewEngine captured.
C1_GraphBeforeChains == Returned => last.changes.GraphBefore = last.chainBefore

\* A successful call that follows an earlier one and reports a change.
C1_Witness ==
    /\ Returned
    /\ last.chainBefore # GraphHash(EmptySnapshot)
    /\ last.changes.GraphAfter # last.changes.GraphBefore

\* C2: after every successful WhatChanged with no Apply in flight, the
\* snapshot equals the one a full scan of the graph produces and GraphAfter is
\* its hash (stated for runs in which no failed call has drained taints).
C2_SnapshotIsFullScan ==
    (Returned /\ ~ dropped) =>
        /\ snapshot = captureSnapshot(graph)
        /\ last.changes.GraphAfter = GraphHash(captureSnapshot(graph))

\* C3: every assembly of the graph whose (ID, hash) pair is not in the
\* snapshot is listed by the next successful WhatChanged, under Created when
\* the ID is unknown and under Updated when the hash differs (stated for runs
\* in which no failed call has drained taints).
C3_EveryChangeListed ==
    (Returned /\ ~ dropped) =>
        \A id \in DOMAIN captureSnapshot(graph) :
            LET hash == captureSnapshot(graph)[id]
            IN  /\ id \notin DOMAIN last.snapBefore
                    => <<id, hash>> \in Pairs(last.changes.Created)
                /\ (id \in DOMAIN last.snapBefore /\ last.snapBefore[id] # hash)
                    => <<id, hash>> \in Pairs(last.changes.Updated)

\* C4: a component is listed under Removed only if the graph holds no
\* assembly with that ComponentID at the time of the call.
C4_RemovedIsAbsent ==
    Returned =>
        \A r \in last.changes.Removed : r.id \notin DOMAIN captureSnapshot(graph)

\* C5: a WhatChanged that returns an error while committed changes wait to be
\* reported leaves the engine state (snapshot and taint set) as it was before
\* the call, so that the next call still reports them.
C5_FailureLeavesStateUntouched ==
    (Failed /\ captureSnapshot(graph) # last.snapBefore) =>
        /\ snapshot = last.snapBefore
        /\ taintedNodes = last.taintsBefore

C9_FailureKeepsSnapshot ==
    /\ Failed => snapshot = last.snapBefore /\ chain = last.chainBefore
    /\ ~ tx.active => GraphHash(snapshot) = chain

\* A call failed while committed changes were waiting to be reported.
C9_Witness ==
    /\ Failed
    /\ last.taintsBefore # {}
    /\ snapshot # EmptySnapshot
    /\ snapshot # captureSnapshot(graph)

\* C10: a WhatChanged made when no Apply has run since the previous
\* successful WhatChanged returns empty Created, Updated and Removed with
\* GraphAfter equal to GraphBefore, and leaves the snapshot unchanged.
C10_QuietCallIsEmpty ==
    (Returned /\ last.quietBefore) =>
        /\ last.changes.Created = {}
        /\ last.changes.Updated = {}
        /\ last.changes.Removed = {}
        /\ last.changes.GraphAfter = last.changes.GraphBefore
        /\ snapshot = last.snapBefore

\* A quiet call on an engine whose snapshot holds assemblies.
C10_Witness == Returned /\ last.quietBefore /\ snapshot # EmptySnapshot

(***************************************************************************)
(* Properties of the engine driven by several goroutines.                  *)
(***************************************************************************)
\* C6: while a WhatChanged drains the taint set and reads the assemblies, no
\* Apply transaction is executing and no other WhatChanged is reading.
C6_ReadExcludesWriters ==
    \A p \in Checkers :
        cpc[p] = "locked" =>
            /\ writers = {}
            /\ \A a \in Appliers : apc[a] = "idle"
            /\ \A q \in Checkers \ {p} : cpc[q] # "locked"

\* Two Apply transactions execute at once while a WhatChanged waits for both
\* to end before it reads.
C6_Witness ==
    \E p \in Checkers :
        /\ cpc[p] = "announced"
        /\ Cardinality(writers) >= 2
        /\ \A a \in writers : aop[a] # NoOp

\* C7: the snapshot is read and mutated only under the exclusive lock, so the
\* GraphChanged values returned by WhatChanged calls made from several
\* goroutines form one chain: the GraphBefore of each successful call equals
\* the GraphAfter of the successful call that returned just before it.
C7_ConcurrentChain ==
    \A p \in Checkers :
        (cloc[p].returned /\ cloc[p].err = "none") =>
            cloc[p].changes.GraphBefore = cloc[p].chainBefore

(***************************************************************************)
(* Properties of the notifications of the engine driven by one caller.     *)
(***************************************************************************)
\* The prior snapshot with every Created entry added, every Updated entry
\* replaced and every Removed entry deleted.
Applied(prior, changes) ==
    LET set == Pairs(changes.Created) \cup Pairs(changes.Updated)
        gone == {r.id : r \in changes.Removed}
    IN  [id \in (DOMAIN prior \cup {x[1] : x \in set}) \ gone |->
            IF id \in {x[1] : x \in set}
            THEN (CHOOSE x \in set : x[1] = id)[2]
            ELSE prior[id]]

\* C11: for every successful WhatChanged, GraphAfter is the ForestHash of the
\* prior snapshot with the Created entries added, the Updated entries replaced
\* and the Removed entries deleted, and that is the engine's snapshot after
\* the call.
C11_DiffLinearity ==
    Returned =>
        /\ snapshot = Applied(last.snapBefore, last.changes)
        /\ last.changes.GraphAfter =
               HashComponents(Applied(last.snapBefore, last.changes))

\* A successful call that reports a created and a removed component.
C11_Witness ==
    Returned /\ last.changes.Created # {} /\ last.changes.Removed # {}

\* A step in which WhatChanged returns without an error.
Returning == ~ tx.active /\ last'.called /\ last'.err = "none"

\* C12: the Baseline of each Updated entry and the Hash of each Removed entry
\* is the hash of the most recent earlier Created or Updated notification of
\* the same ComponentID (or of the initial snapshot), and the Baseline of an
\* Updated entry differs from the entry's new hash.
C12_BaselineIsLastNotified ==
    [][Returning =>
        /\ \A u \in last'.changes.Updated :
               /\ u.id \in DOMAIN notified
               /\ u.Baseline = notified[u.id]
               /\ u.Baseline # u.hash
        /\ \A r \in last'.changes.Removed :
               /\ r.id \in DOMAIN notified
               /\ r.hash = notified[r.id]]_vars

\* A successful call that reports an updated component.
C12_Witness == Returned /\ last.changes.Updated # {}

\* C13: the notifications of one ComponentID follow the order created, then
\* updated any number of times, then removed, then possibly created again: a
\* component is reported Created only when it is not in the snapshot, and
\* Updated or Removed only when it is.
C13_NotificationOrder ==
    [][Returning =>
        /\ \A c \in last'.changes.Created :
               c.id \notin DOMAIN notified /\ c.id \notin DOMAIN snapshot
        /\ \A u \in last'.changes.Updated :
               u.id \in DOMAIN notified /\ u.id \in DOMAIN snapshot
        /\ \A r \in last'.changes.Removed :
               r.id \in DOMAIN notified /\ r.id \in DOMAIN snapshot]_vars

\* A successful call that reports nothing but the removal of a component
\* reported created before.
C13_Witness ==
    /\ Returned
    /\ last.changes.Removed # {}
    /\ last.changes.Created = {}
    /\ last.changes.Updated = {}

\* C14: every assembly the engine records is one whole connected component:
\* no node belongs to two assemblies of the snapshot, and the roots of an
\* assembly are exactly the nodes of its component without an incoming edge.
C14_AssembliesAreComponents ==
    (Returned /\ snapshot = captureSnapshot(graph)) =>
        /\ \A a \in fetchAssemblies(graph), b \in fetchAssemblies(graph) :
               a # b => a.Vertices \cap b.Vertices = {}
        /\ \A a \in fetchAssemblies(graph) :
               {a.Root[i] : i \in DOMAIN a.Root} =
                   {r \in RootsOf(graph) :
                       \E v \in a.Vertices : v = r \/ Reaches(graph, r, v)}

\* The edges between node n and the nodes of a type, by direction.
EdgesFrom(g, n, label) == {e \in g.edges : e[1] = n /\ LabelOf(e[2]) = label}

EdgesTo(g, n, label) == {e \in g.edges : e[2] = n /\ LabelOf(e[1]) = label}

\* The graph holds more edges than the kinds the type pairs are asserted
\* with allow.
CardinalityExceeded(g, kinds) ==
    \E p \in TypePairs, n \in Values :
        \/ /\ kinds[p] \in {"OneToOne", "ManyToOne"}
           /\ LabelOf(n) = p[1]
           /\ Cardinality(EdgesFrom(g, n, p[2])) > 1
        \/ /\ kinds[p] \in {"OneToOne", "OneToMany"}
           /\ LabelOf(n) = p[2]
           /\ Cardinality(EdgesTo(g, n, p[1])) > 1

\* C15: starting from an empty graph whose edges all come from relationship
\* assertions, each ordered pair of types asserted with one kind, an
\* assertion panics only when the graph before the call held more edges than
\* the relationship kinds allow.
C15_PanicOnlyOnViolation ==
    [][alast'.ret = "panic" => CardinalityExceeded(agraph, akinds')]_vars

\* A step in which the named relationship assertion returns nil.
ReturnsNil(kind) == alast'.kind = kind /\ alast'.ret = "nil" /\ acount' = acount + 1

\* C16: the only edges OneToOne(s, t) removes are edges from s to a node of
\* t's type and edges to t from a node of s's type; every other edge,
\* including edges that lead into s or out of t, is still present afterwards.
C16_OneToOneFrame ==
    [][ReturnsNil("OneToOne") =>
        agraph.edges \ agraph'.edges \subseteq
            EdgesFrom(agraph, alast'.source, LabelOf(alast'.target)) \cup
            EdgesTo(agraph, alast'.target, LabelOf(alast'.source))]_vars

\* The relationship assertion of the kind has just returned nil.
ReturnedNil(kind) == alast.kind = kind /\ alast.ret = "nil"

\* C17: after OneToOne(s, t) returns nil the edge s->t exists, is the only
\* edge from s to a node of t's type and the only edge to t from a node of
\* s's type; after OneToMany(s, t) returns nil it is the only edge to t from
\* a node of s's type; after ManyToOne(s, t) returns nil it is the only edge
\* from s to a node of t's type.
C17_AssertionPostconditions ==
    LET s == alast.source
        t == alast.target
        from == EdgesFrom(agraph, s, LabelOf(t))
        to == EdgesTo(agraph, t, LabelOf(s))
    IN  /\ ReturnedNil("OneToOne") => from = {<<s, t>>} /\ to = {<<s, t>>}
        /\ ReturnedNil("OneToMany") => to = {<<s, t>>}
        /\ ReturnedNil("ManyToOne") => from = {<<s, t>>}

\* A OneToOne assertion has returned nil after replacing the edge that left
\* its source for another node of the target's type.
C17_Witness ==
    /\ ReturnedNil("OneToOne")
    /\ acount > 1
    /\ \E n \in agraph.nodes :
           /\ n # alast.target
           /\ LabelOf(n) = LabelOf(alast.target)
           /\ Neighbours(agraph, n) = {}

\* The type of the step each Recorder method records.
StepType ==
    [AssertNode |-> "assertNode", RetractNode |-> "retractNode",
     AssertEdge |-> "assertEdge", RetractEdges |-> "retractEdges",
     AssertOneToOne |-> "assertOneToOne", AssertOneToMany |-> "assertOneToMany",
     AssertManyToOne |-> "assertManyToOne", AssertManyToMany |-> "assertManyToMany"]

\* The arguments a step was recorded with.
StepArgs(s) ==
    IF s.type \in {"assertNode", "retractNode"} THEN <<s.Node>>
    ELSE IF s.type = "retractEdges" THEN <<s.Node, s.Kind>>
    ELSE IF s.type = "assertEdge" THEN <<s.From, s.To>>
    ELSE <<s.Source, s.Target>>

\* C18: replaying the steps obtained by Encode followed by Decode of Steps()
\* makes the same GraphWriter calls, in the same order and with the same
\* arguments, as replaying Steps() directly, and one step is recorded per
\* Recorder call, in call order.
C18_ReplayEquivalence ==
    /\ Len(rsteps) = Len(rcalls)
    /\ \A i \in 1..Len(rsteps) :
           /\ rsteps[i].type = StepType[rcalls[i].method]
           /\ StepArgs(rsteps[i]) = rcalls[i].args
    /\ (outcome.op = "replay" /\ outcome.via = "decoded") =>
           outcome.run = Replay(rsteps, EmptyGraph, outcome.failAt)

\* Decoded steps were replayed to the end, among them a RetractEdges of a
\* kind that is not the type of its node.
C18_Witness ==
    /\ outcome.op = "replay"
    /\ outcome.via = "decoded"
    /\ outcome.run.ret = "nil"
    /\ Len(rsteps) = MaxSteps
    /\ \E e \in 1..Len(outcome.run.log) :
           /\ outcome.run.log[e].call[1] = "RetractEdges"
           /\ outcome.run.log[e].call[3] # LabelOf(outcome.run.log[e].call[2])

\* What one call does to the graph of the writer.
ApplyCall(g, call) ==
    IF call[1] = "AssertNode" THEN assertNode(g, call[2]).g
    ELSE IF call[1] = "RetractNode" THEN retractNode(g, call[2]).g
    ELSE IF call[1] = "AssertEdge" THEN assertEdge(g, call[2], call[3]).g
    ELSE retractEdges(g, call[2], call[3]).g

\* The graph after the first n calls of a log.
RECURSIVE ApplyLog(_, _, _)
ApplyLog(g, log, n) ==
    IF n = 0 THEN g ELSE ApplyCall(ApplyLog(g, log, n - 1), log[n].call)

\* C19: Replay applies the steps one after another in slice order; when a
\* step returns an error, Replay returns that error, performs no later step,
\* and does not undo the steps already applied.
C19_ReplayStopsAtFirstError ==
    outcome.op = "replay" =>
        LET run == outcome.run
            log == run.log
            failed == outcome.failAt \in 1..Len(log)
        IN  /\ \A i \in 1..Len(log), j \in 1..Len(log) :
                   i < j => log[i].step <= log[j].step
            /\ failed <=> run.ret = "error"
            /\ failed => outcome.failAt = Len(log)
            /\ run.ret = "nil" => {log[i].step : i \in 1..Len(log)} = 1..Len(rsteps)
            /\ run.g = ApplyLog(EmptyGraph, log,
                                IF failed THEN Len(log) - 1 ELSE Len(log))

\* A replay in which the second step returned an error after the first step
\* had changed the graph.
C19_Witness ==
    /\ outcome.op = "replay"
    /\ outcome.run.ret = "error"
    /\ outcome.run.g # EmptyGraph
    /\ \E i \in 1..Len(outcome.run.log) : outcome.run.log[i].step = 2
    /\ Len(rsteps) > 1

\* The place of the first occurrence of value v among the operands.
FirstAt(operands, v) ==
    CHOOSE i \in 1..Len(operands) :
        operands[i] = v /\ \A j \in 1..(i - 1) : operands[j] # v

\* C20: Targets(steps) yields every node that is an operand of some step
\* exactly once, in order of first occurrence, and yields nothing more after
\* the consumer asks to stop.
C20_TargetsYieldsEachNodeOnce ==
    outcome.op = "targets" =>
        LET y == outcome.yielded
            operands == Operands(rsteps)
            nodes == {operands[i] : i \in 1..Len(operands)}
            stopped == outcome.stopAt > 0 /\ Len(y) >= outcome.stopAt
        IN  /\ \A i \in 1..Len(y), j \in 1..Len(y) :
                   i # j => MustContentAddress(y[i]) # MustContentAddress(y[j])
            /\ \A i \in 1..Len(y) : y[i] \in nodes
            /\ \A i \in 1..Len(y), j \in 1..Len(y) :
                   i < j => FirstAt(operands, y[i]) < FirstAt(operands, y[j])
            /\ \A i \in 1..Len(y), v \in nodes :
                   FirstAt(operands, v) < FirstAt(operands, y[i]) =>
                       \E j \in 1..(i - 1) : y[j] = v
            /\ ~ stopped => {y[i] : i \in 1..Len(y)} = nodes
            /\ stopped => Len(y) = outcome.stopAt

\* The consumer stopped an iteration over steps that name a node twice,
\* before every node was yielded.
C20_Witness ==
    /\ outcome.op = "targets"
    /\ outcome.stopAt > 0
    /\ Len(outcome.yielded) = outcome.stopAt
    /\ \E i \in 1..Len(Operands(rsteps)) :
           \A j \in 1..Len(outcome.yielded) : Operands(rsteps)[i] # outcome.yielded[j]
    /\ \E i \in 1..Len(Operands(rsteps)), j \in 1..Len(Operands(rsteps)) :
           i < j /\ Operands(rsteps)[i] = Operands(rsteps)[j]


\* C21: the disassembler acknowledges a GraphChanged message only after every
\* ComponentChanged message derived from it has been sent (an empty one is
\* acknowledged with nothing sent); when decoding or a send fails it neither
\* acknowledges the message nor goes on to receive the next one.
C21_AckAfterAllSent ==
    [][/\ dacks' = dacks + 1 =>
              /\ dmsg.body = "gob"
              /\ dfailed = {}
              /\ dsent = IF IsEmpty(dmsg.changed) THEN {}
                         ELSE disassembleGraph(dmsg.changed)
       /\ dreceived' = dreceived + 1 => dacks = dreceived
       /\ (dmsg.body = "garbage" \/ dfailed # {}) =>
              /\ dacks' = dacks
              /\ dreceived' = dreceived
       /\ dacks' <= dreceived']_vars

\* The disassembler has acknowledged one message and panicked on the next
\* after one send succeeded and another failed.
C21_Witness ==
    /\ dacks = 1
    /\ dreceived = 2
    /\ dpc = "panicked"
    /\ dsent # {}
    /\ dfailed # {}


\* C22: TrackAttribute stops with a fatal error when it receives a
\* GraphChanged whose GraphBefore differs from the GraphAfter of the
\* GraphChanged it handled immediately before, and applies none of that
\* message's changes to the AttributeMap.
C22_DiscontinuityIsFatal ==
    [][(/\ treceived' = treceived + 1
        /\ tmsg'.body = "gob"
        /\ tlastAfter # ZeroForest
        /\ tmsg'.changed.GraphBefore # tlastAfter)
       => (tpc' = "fatal" /\ amap' = amap)]_vars

\* C23: after TrackAttribute has handled a sequence of GraphChanged messages,
\* the AttributeMap holds an entry for a ComponentID exactly when the latest
\* notification for that component was Created or Updated with a valid
\* attribute, and none for a component whose latest notification was Removed.
C23_MapIsUpToDate ==
    (tpc # "fatal" /\ tcontinuous) =>
        \A c \in Components : c \in DOMAIN amap <=> tlatest[c] = "valid"


\* C24: Find, Update and Iter may be called from several goroutines at the
\* same time, and no call reads the underlying map while another call is
\* writing it.
C24_NoReadDuringWrite ==
    /\ ~ mfatal
    /\ \A g \in Goroutines, h \in Goroutines :
           (g # h /\ gpc[g].op = "Update") => gpc[h].op = "none"


\* C28: after any sequence of RegisterLabel calls, including calls that
\* panic and calls made concurrently, the label-to-type and the
\* type-to-label tables are inverse of each other.
C28_TablesAreInverse ==
    (\A g \in Registrars : regpc[g].at = "idle") =>
        /\ \A l \in DOMAIN mLabelToType :
               /\ mLabelToType[l] \in DOMAIN mTypeToLabel
               /\ mTypeToLabel[mLabelToType[l]] = l
        /\ \A t \in DOMAIN mTypeToLabel :
               /\ mTypeToLabel[t] \in DOMAIN mLabelToType
               /\ mLabelToType[mTypeToLabel[t]] = t


\* The roots of an assembly, as a set.
RootSet(a) == {a.Root[i] : i \in DOMAIN a.Root}

\* How often a node is given as a root.
RootCount(a, n) == Cardinality({i \in DOMAIN a.Root : a.Root[i] = n})

\* No edge of the assembly goes from a node to itself.
NoSelfEdge(a) == \A e \in a.Neighbours : e[1] # e[2]

SameAssembly(a, b) ==
    /\ RootSet(a) = RootSet(b)
    /\ a.Vertices = b.Vertices
    /\ a.Neighbours = b.Neighbours

DistinctIDs(refs) ==
    \A i \in DOMAIN refs, j \in DOMAIN refs : refs[i].id = refs[j].id => i = j

\* C27: the ForestHash depends only on the (ComponentID, ComponentHash)
\* pairs of the map and not on the order in which the map is ranged over;
\* ComputeForestHash over the components, in any order, is HashComponents
\* over the map built from them.
C27_ForestHashOrderIndependent ==
    fhash.computed =>
        /\ fhash.hash = HashComponents(Precomputed(frefs))
        /\ (fagain.computed /\ (fsame \/ DistinctIDs(frefs))) => fagain.hash = fhash.hash

\* Three components of three IDs, given first in descending and then in
\* another order, have one ForestHash in which the hashes differ.
C27_Witness ==
    /\ fhash.computed
    /\ ~ fsame
    /\ Len(frefs) = 3
    /\ DistinctIDs(frefs)
    /\ LexLess(frefs[2].id, frefs[1].id)
    /\ \E i \in DOMAIN fhash.hash, j \in DOMAIN fhash.hash : fhash.hash[i] # fhash.hash[j]
    /\ fagain.computed
    /\ fagain.hash = fhash.hash


\* C29: in an assembly that Assemble returned, every root and every end of
\* every edge is a key of the node mapping and the roots are those of the
\* last Roots call; the calls made on the builder afterwards, Reset
\* included, do not change it.
C29_AssembledIsWellFormedAndKept ==
    \A i \in DOMAIN bassembled :
        LET a == AssemblyOf(barrays, bmaps, bassembled[i].g)
        IN  /\ a = bassembled[i].returned
            /\ a.Root = bassembled[i].given
            /\ \A k \in DOMAIN a.Root : a.Root[k] \in a.Vertices
            /\ \A e \in a.Neighbours : e[1] \in a.Vertices /\ e[2] \in a.Vertices

\* An assembly of two roots and an edge was returned; the builder, given
\* one other root since, has cut down the slice it had then.
C29_Witness ==
    /\ Len(bassembled) = 1
    /\ Len(bassembled[1].returned.Root) = 2
    /\ bassembled[1].returned.Neighbours # {}
    /\ broots.len = 1
    /\ Len(barrays[broots.arr]) = 2
    /\ SliceOf(barrays, broots)[1] # bassembled[1].returned.Root[1]


\* The children of a node of the assembly that is walked.
Children(n) == wtree.Neighbours[n]

\* The call Visit(node) number i of the log.
IsVisit(i) == wlog[i].at # Nil

\* The call number j is the Visit(nil) that ends the WalkSubtree begun by
\* the call number i: the first one of its depth after it.
Ends(j, i) ==
    /\ i < j
    /\ ~ IsVisit(j)
    /\ wlog[j].depth = wlog[i].depth
    /\ \A k \in (i + 1)..(j - 1) : IsVisit(k) \/ wlog[k].depth # wlog[i].depth

\* The nodes visited between two calls at one depth, in the order of the
\* calls.
VisitedBetween(i, j, depth) ==
    LET Within(e) == e.at # Nil /\ e.depth = depth
        visits == SelectSeq(SubSeq(wlog, i + 1, j - 1), Within)
    IN  [k \in DOMAIN visits |-> visits[k].at]

RECURSIVE ReachableFrom(_)
ReachableFrom(S) ==
    LET more == S \cup UNION {{Children(n)[k] : k \in DOMAIN Children(n)} : n \in S}
    IN  IF more = S THEN S ELSE ReachableFrom(more)

\* What holds of the calls made so far, at every moment of the walk.
WalkedInOrder ==
    \A i \in DOMAIN wlog :
        /\ (IsVisit(i) /\ wlog[i].depth = 0) =>
               /\ wlog[i].visitor = FirstVisitor
               /\ \E k \in DOMAIN wtree.Root : wtree.Root[k] = wlog[i].at
        /\ (IsVisit(i) /\ wlog[i].depth > 0) =>
               \E p \in 1..(i - 1) :
                   /\ IsVisit(p)
                   /\ wlog[p].depth = wlog[i].depth - 1
                   /\ wlog[p].w # Nil
                   /\ wlog[i].visitor = wlog[p].w
                   /\ wlog[i].node = wtree.Vertices[wlog[i].at]
                   /\ \E k \in DOMAIN Children(wlog[p].at) : Children(wlog[p].at)[k] = wlog[i].at
                   /\ \A j \in (p + 1)..(i - 1) : ~ Ends(j, p)
        /\ (IsVisit(i) /\ wlog[i].w = Nil /\ i < Len(wlog)) =>
               /\ wlog[i + 1].depth <= wlog[i].depth
               /\ ~ Ends(i + 1, i)
        /\ ~ IsVisit(i) =>
               \E p \in 1..(i - 1) :
                   /\ IsVisit(p)
                   /\ Ends(i, p)
                   /\ wlog[p].w # Nil
                   /\ wlog[i].visitor = wlog[p].w
                   /\ VisitedBetween(p, i, wlog[p].depth + 1) = Children(wlog[p].at)

\* What holds of the calls once Walk has returned.
WalkedThrough ==
    /\ VisitedBetween(0, Len(wlog) + 1, 0) = wtree.Root
    /\ \A i \in DOMAIN wlog :
           (IsVisit(i) /\ wlog[i].w # Nil) => \E j \in DOMAIN wlog : Ends(j, i)
    /\ (\A i \in DOMAIN wlog : IsVisit(i) => wlog[i].w # Nil) =>
           \A n \in ReachableFrom({wtree.Root[k] : k \in DOMAIN wtree.Root}) :
               \E i \in DOMAIN wlog : wlog[i].at = n

\* C30: on an acyclic assembly Walk terminates; it calls Visit on every node
\* reachable from the roots, on a node only after one of its parents and
\* with the visitor returned for that parent, and Visit(nil) on the visitor
\* returned for a node after all the children of the node have been walked;
\* through a nil visitor no child is walked and no Visit(nil) follows.
C30_WalkIsDepthFirst ==
    /\ [](WalkedInOrder /\ (wpc = "done" => WalkedThrough))
    /\ <>(wpc = "done")

\* Walk has returned from an assembly in which a node has two parents: the
\* node was visited twice, once with a nil visitor returned and once with a
\* visitor made for it.
C30_Witness ==
    /\ wpc = "done"
    /\ \E i \in DOMAIN wlog, j \in DOMAIN wlog :
           /\ i < j
           /\ IsVisit(i)
           /\ wlog[i].at = wlog[j].at
           /\ wlog[i].depth = 2
           /\ wlog[i].w = Nil
           /\ wlog[j].depth = 1
           /\ wlog[j].w \notin {Nil, wlog[j].visitor}


(***************************************************************************)
(* snapshot.PartialDiff.                                                   *)
(***************************************************************************)
\* C31: PartialDiff(S, P, dirtyRoots) returns as created the ids of P that S
\* lacks, as updated the ids of both whose hashes differ, and as removed the
\* dirty roots that S has and P lacks; the three are pairwise disjoint and
\* no id whose hash is the same in S and P is returned.
C31_PartialDiffPartition ==
    ddiff.computed =>
        LET d == ddiff.diff
            inS == DOMAIN dsnapshot
            inP == DOMAIN dpartial
        IN  /\ d.created = inP \ inS
            /\ d.updated = {id \in inP \cap inS : dsnapshot[id] # dpartial[id]}
            /\ d.removed = (ddirtyRoots \cap inS) \ inP
            /\ d.created \cap d.updated = {}
            /\ d.created \cap d.removed = {}
            /\ d.updated \cap d.removed = {}
            /\ \A id \in inP \cap inS :
                   dsnapshot[id] = dpartial[id] =>
                       id \notin d.created \cup d.updated \cup d.removed

\* A call that returns an updated and a removed component and leaves out a
\* dirty root whose hash is the same in both snapshots.
C31_Witness ==
    /\ ddiff.computed
    /\ ddiff.diff.updated # {}
    /\ ddiff.diff.removed # {}
    /\ \E id \in ddirtyRoots \cap DOMAIN dsnapshot \cap DOMAIN dpartial :
           dsnapshot[id] = dpartial[id]

(***************************************************************************)
(* The taints of the writer operations.                                    *)
(***************************************************************************)
\* The other ends of the edges of node n in a set of edges.
OtherEnds(edges, n) ==
    {e[2] : e \in {x \in edges : x[1] = n}} \cup {e[1] : e \in {x \in edges : x[2] = n}}

\* The nodes the last operation touched: the operand of AssertNode, both
\* ends of AssertEdge, the operand of RetractNode and the nodes next to it
\* before the deletion, the operand of RetractEdges and the other end of
\* every edge it removed.
Touched ==
    IF gwlast.op.kind = "assertNode" THEN {gwlast.op.n}
    ELSE IF gwlast.op.kind = "assertEdge" THEN {gwlast.op.from, gwlast.op.to}
    ELSE IF gwlast.op.kind = "retractNode"
    THEN {gwlast.op.n} \cup OtherEnds(gwlast.before.edges, gwlast.op.n)
    ELSE {gwlast.op.n} \cup OtherEnds(gwlast.before.edges \ gwgraph.edges, gwlast.op.n)

\* C32: a writer operation that succeeds adds to the taint set the nodes it
\* touched, all of them and no other node.
C32_TaintsAreTheTouchedNodes ==
    (gwlast.called /\ gwlast.ok) => gwtaints = gwlast.taintsBefore \cup Touched

\* A RetractEdges that removes an edge of its operand and keeps another: the
\* node at the end of the removed edge is tainted by it, the node at the end
\* of the edge that is kept is not tainted.
C32_Witness ==
    /\ gwlast.called /\ gwlast.ok
    /\ gwlast.op.kind = "retractEdges"
    /\ gwgraph.edges # gwlast.before.edges
    /\ OtherEnds(gwgraph.edges, gwlast.op.n) \ gwtaints # {}
    /\ Touched \ gwlast.taintsBefore # {}


(***************************************************************************)
(* The nodeMap shared by goroutines.                                       *)
(***************************************************************************)
\* C33: however the Taint and ClearTaints calls of the goroutines interleave,
\* a ClearTaints returns the nodes the Taint calls were given since the
\* previous ClearTaints, each of them once: a tainted node is returned by
\* the next ClearTaints and by no other, and a ClearTaints with no Taint
\* since the previous one returns nothing.
C33_EachTaintClearedOnce ==
    nlast.returned =>
        /\ Range(nlast.nodes) = nlast.owed
        /\ \A i \in DOMAIN nlast.nodes, j \in DOMAIN nlast.nodes :
               nlast.nodes[i] = nlast.nodes[j] => i = j
        /\ nlast.owed = {} => nlast.nodes = << >>

\* A ClearTaints has returned two nodes and the next ClearTaints, with no
\* Taint in between, returned nothing.
C33_Witness ==
    /\ nlast.returned
    /\ nlast.nodes = << >>
    /\ nlast.before.returned
    /\ Len(nlast.before.nodes) = 2


(***************************************************************************)
(* Failed Apply calls and change detection.                                *)
(***************************************************************************)
\* C34: when the one Apply made since the previous successful WhatChanged
\* has failed, the next WhatChanged returns empty Created, Updated and
\* Removed and a GraphAfter equal to GraphBefore.
C34_FailedApplyLeavesNoChange ==
    (Returned /\ last.failedAlone) =>
        /\ last.changes.Created = {}
        /\ last.changes.Updated = {}
        /\ last.changes.Removed = {}
        /\ last.changes.GraphAfter = last.changes.GraphBefore


(***************************************************************************)
(* txMutex and the taints under a stream of calls.                         *)
(***************************************************************************)
\* C35: a drain sees no part of an Apply.  When WhatChanged drains the
\* taints no Apply is in its transaction, and the drained nodes are the
\* nodes tainted by the Apply calls that have returned since the drain
\* before: the taints of one Apply are drained together, after it returned.
C35_DrainSeesWholeApplies ==
    klast.drained =>
        /\ klast.open = {}
        /\ klast.part = {}
        /\ klast.nodes = klast.owed

\* A WhatChanged has drained the two nodes tainted by Apply calls that had
\* returned, and its Unlock has let a blocked Apply begin.
C35_Witness ==
    /\ klast.drained
    /\ klast.nodes = LockValues
    /\ klast.open = {}
    /\ \E a \in Appliers : kapc[a] = "tx"
    /\ kinflight = {}


\* C36: a WhatChanged that waits for the exclusive lock keeps the Apply
\* calls made after it from acquiring write mode, so it acquires the lock
\* once the Apply calls in progress have returned, however many Apply calls
\* keep coming; and an Apply that waits acquires write mode, since every
\* WhatChanged releases the lock however it ends.
C36_NoCallWaitsForEver ==
    /\ \A p \in Checkers : (kcpc[p] = "announced") ~> (kcpc[p] = "locked")
    /\ \A a \in Appliers : (kapc[a] = "wlock") ~> (kapc[a] = "tx")
    /\ [][(klocker # NoChecker /\ klocker' # NoChecker) => kwriters' \subseteq kwriters]_vars

\* A WhatChanged waits for an Apply in progress and keeps out an Apply
\* called after it.
C36_Witness ==
    /\ \E p \in Checkers : kcpc[p] = "announced"
    /\ kwriters # {}
    /\ \E a \in Appliers : kapc[a] = "wlock"


(***************************************************************************)
(* What changes the snapshot.                                              *)
(***************************************************************************)
\* C37: the snapshot changes only in a WhatChanged that succeeds.  No step
\* of Apply changes it, whether the transaction commits or fails, and a
\* WhatChanged that returns an error leaves it as it was.
C37_OnlySuccessChangesSnapshot ==
    [][/\ snapshot' # snapshot => (last'.called /\ last'.err = "none" /\ ~ tx.active)
       /\ (tx.active \/ tx'.active) => snapshot' = snapshot
       /\ (last'.called /\ last'.err # "none") => snapshot' = snapshot]_vars

\* An Apply has tainted nodes and failed, and the WhatChanged after it has
\* returned an error: the snapshot, which holds assemblies, is the one
\* before the two calls.
C37_Witness ==
    /\ Failed
    /\ last.failedAlone
    /\ last.taintsBefore # {}
    /\ last.snapBefore # EmptySnapshot
    /\ snapshot = last.snapBefore


\* C38: within one WhatChanged the assemblies fetchPartialAssemblies returns
\* carry each ComponentID once, however many of the drained taints lie in
\* one assembly, and every one of them is an assembly of the committed
\* graph; the loop never panics over two hashes of one ComponentID, because
\* every Apply is held off while the queries run.
C38_EachAssemblyFetchedOnce ==
    /\ \A i, j \in 1..Len(qfetched) :
           AssemblyID(qfetched[i]) = AssemblyID(qfetched[j]) => i = j
    /\ qpc # "panic"
    /\ qpc \in {"locked", "done"} =>
           /\ qwriters = {}
           /\ \A i \in 1..Len(qfetched) : qfetched[i] \in fetchAssemblies(qgraph)
    /\ qpc = "done" =>
           {qfetched[i] : i \in 1..Len(qfetched)} = fetchPartialAssemblies(qgraph, qdrained)

\* An Apply has been made beside the WhatChanged, two of the drained taints
\* lie in the assembly of one root, and that assembly was returned once.
C38_Witness ==
    /\ qpc = "done"
    /\ qapplies > 0
    /\ Len(qfetched) = 1
    /\ \E t1, t2 \in qdrained :
           /\ t1 # t2
           /\ TaintRoots(qgraph, t1) # {}
           /\ TaintRoots(qgraph, t1) = TaintRoots(qgraph, t2)

\* C39: the procedure of EventSource.Stream acknowledges every message it
\* receives before it decodes it and before it calls the handler: each
\* message is acknowledged once and handled at most once, a message is
\* unacknowledged only between Receive and Ack, and the message whose
\* decoding or handling fails is acknowledged when the procedure stops with
\* the fatal error.
C39_AckBeforeDecodeAndHandle ==
    /\ \A m \in Deliveries :
           /\ sacks[m] <= 1
           /\ shandled[m] <= 1
           /\ shandled[m] > 0 => sacks[m] = 1
           /\ m \in sapplied => shandled[m] = 1
           /\ ssub[m] = "delivered" => spc = "ack" /\ scur = m
           /\ ssub[m] = "acked" <=> sacks[m] = 1
    /\ spc \in {"decode", "handle"} => sacks[scur] = 1
    /\ spc = "fatal" /\ scause \in {"decode", "process"} =>
           /\ sacks[scur] = 1
           /\ scur \notin sapplied

\* A message was handled and applied, and the next one made the handler
\* fail: the procedure has stopped and both are acknowledged.
C39_Witness ==
    /\ spc = "fatal"
    /\ scause = "process"
    /\ sacks[scur] = 1
    /\ shandled[scur] = 1
    /\ \E m \in sapplied : m # scur /\ sacks[m] = 1


\* The edges of the whole assembly of a root, however deep it is.
WholeTuples(g, root) ==
    {e \in g.edges : e[1] \in ReachWithin(g, {root}, Cardinality(g.nodes))}

\* C40: a WhatChanged that returns no error has not met an assembly deeper
\* than the queries traverse: it reports changes whenever the graph has
\* changed since the last WhatChanged without error, and the hash it
\* records of each assembly is the hash of the whole assembly.
C40_DeepAssemblyFailsLoudly ==
    plast.called /\ plast.err = "none" /\ pgraph = pbase =>
        /\ plast.changed =>
               plast.changes.Created \cup plast.changes.Updated \cup plast.changes.Removed # {}
        /\ \A r \in RootsOf(pgraph) :
               AssemblyID(parseAssembly(r, {})) \in DOMAIN psnapshot =>
                   psnapshot[AssemblyID(parseAssembly(r, {}))] =
                       AssemblyHash(parseAssembly(r, WholeTuples(pgraph, r)))

====
